---- MODULE Spec2Model ----
(***************************************************************************)
(* Model of the LicenseService of tavily-mcp-licensed (src/src/index.ts). *)
(*                                                                         *)
(* The service is single-threaded JavaScript: a unit of work runs without *)
(* interruption until it awaits the ledger, so every action below is one  *)
(* synchronous run of code between two awaits.  checkLicense has one      *)
(* caller in the program, checkLicenseBatch (index.ts:1374), so a single  *)
(* checkLicense(url) is modelled as the batch of that one URL; one batch  *)
(* is outstanding at a time.                                               *)
(*                                                                         *)
(* Time is in milliseconds, as Date.now() gives it.  Of a ledger record   *)
(* the model keeps license_type and opt_in_status; of a LicenseInfo url,  *)
(* license_found, action and error.  The other LicenseInfo fields (price, *)
(* payto, license_version_id, license_type) are copied from the same      *)
(* selected record and decide nothing in the service.  Of a thrown error  *)
(* the model keeps the kind of its message.                               *)
(*                                                                         *)
(* Three specifications share the variables.  Spec runs the license       *)
(* checks (checkLicenseBatch, resetSession, cleanup, the clock).          *)
(* SpecUsage runs logUsage, several invocations interleaving at their     *)
(* awaits, with resetSession.  SpecFetch runs licensedFetchText with the  *)
(* acquireLicenseToken call it makes; an invocation keeps its state in    *)
(* locals, so one invocation at a time is followed.  Each specification   *)
(* leaves the variables of the others at their initial values.            *)
(***************************************************************************)
EXTENDS Integers, Sequences, FiniteSets, TLC

\* ------------------------------------------------------------------ bounds
URLS == {"u1", "u2"}

\* ledger lookup requests in one run
MaxOps == 2
\* longest URL list handed to checkLicenseBatch
MaxBatchLen == 2
\* clock steps in one run; a step is half the cache TTL
MaxTicks == 2
\* most records in one ledger response
MaxRecords == 2

VARIABLES
    config,          \* LicenseServiceConfig, read once at construction
    licenseCache,    \* Map<string, {license, expires}>
    sessionSummary,  \* LicenseTrackingSummary
    now,             \* Date.now()
    inflight,        \* per URL, how many checkLicense invocations await
                     \* the ledger
    batch,           \* the latest checkLicenseBatch invocation
    last,            \* what the checkLicense runs of the latest step did
    requests,        \* number of ledger lookup requests issued so far
    inserted,        \* per URL, the time at which a check of it last returned
                     \* with a selected ledger record since the last
                     \* cleanup(), -1 when none did
    usage,           \* the logUsage invocations: those awaiting the ledger,
                     \* and what the logUsage run of the latest step did
    fetcher,         \* the licensedFetchText invocation: its position, its
                     \* locals, what it has issued and its result
    acquirer,        \* what the acquireLicenseToken invocation did
    tokenEncoder,    \* the tiktoken encoder of the service: null when its
                     \* construction failed, freed once cleanup() ran
    caller,          \* what the latest synchronous call of the service
                     \* returned to its caller, and what the caller did to it
    tally,           \* what the operations that ended since the latest
                     \* resetSession() ended with
    handler          \* the tool handler invocation: its position, its
                     \* locals and what it returned

\* the state of the license checks
checkVars == <<licenseCache, now, inflight, batch, last, requests, inserted>>

\* the state of the payment-aware fetch
fetchVars == <<fetcher, acquirer>>

\* the encoder and what a caller holds
asideVars == <<tokenEncoder, caller>>

vars == <<config, licenseCache, sessionSummary, now, inflight, batch, last, requests, inserted,
          usage, fetcher, acquirer, tokenEncoder, caller, tally, handler>>

\* parseInt(process.env.LICENSE_CACHE_TTL_SECONDS || '300')
DefaultCacheTTL == 300

\* ------------------------------------------------------------ data model
Range(f) == {f[x] : x \in DOMAIN f}

SeqsUpTo(S, n) == UNION {[1..k -> S] : k \in 0..n}

NoLicense ==
    [url |-> "-", license_found |-> FALSE, action |-> "-", error |-> "none"]

\* { url, license_found: false, action: 'unknown' }
UnknownLicense(url) ==
    [url |-> url, license_found |-> FALSE, action |-> "unknown", error |-> "none"]

\* { url, license_found: false, action: 'unknown', error: error.message }
ErrorLicense(url, message) ==
    [url |-> url, license_found |-> FALSE, action |-> "unknown", error |-> message]

NoEntry == [present |-> FALSE, license |-> NoLicense, expires |-> 0]

\* tracking_enabled: true in the place of the configured flag
ZeroSummary_TrackingOn(tracking) ==
    [total_urls |-> 0, licensed_content |-> 0, unlicensed_content |-> 0,
     denied_content |-> 0, total_tokens |-> 0, tracking_enabled |-> TRUE,
     errors |-> 0]

ZeroSummary(tracking) ==
    [total_urls |-> 0, licensed_content |-> 0, unlicensed_content |-> 0,
     denied_content |-> 0, total_tokens |-> 0, tracking_enabled |-> tracking,
     errors |-> 0]

\* The elements a response body can hold: a license record, null, or a
\* scalar (string, number), whose properties all read as undefined.
NullItem == [tag |-> "null", license_type |-> "undefined", opt_in_status |-> "undefined"]
ScalarItem == [tag |-> "scalar", license_type |-> "undefined", opt_in_status |-> "undefined"]
NoItem == [tag |-> "none", license_type |-> "undefined", opt_in_status |-> "none"]
RecordItems ==
    [tag : {"rec"}, license_type : {"ai-license", "other"},
     opt_in_status : {"opt-in", "opt-out", "pending"}]
Items == RecordItems \cup {NullItem, ScalarItem}

\* What the lookup request can end with: axios rejects (timeout, transport
\* error, non-2xx status), or resolves with a body that is an array, or a
\* single non-array value.
Rejections == {"timeout", "transport", "status"}
Responses ==
    [kind : Rejections, data : {<<>>}]
      \cup [kind : {"array"}, data : SeqsUpTo(Items, MaxRecords)]
      \cup [kind : {"value"}, data : {<<i>> : i \in Items}]

\* ------------------------------------------------- checkLicense, the code
\* const licenseArray = Array.isArray(response.data) ? response.data : [response.data]
licenseArray(resp) ==
    IF resp.kind = "array" THEN resp.data ELSE <<resp.data[1]>>

Min(S) == CHOOSE x \in S : \A y \in S : x <= y

AiIndexes(arr) == {i \in 1..Len(arr) : arr[i].license_type = "ai-license"}

\* The elements Array.prototype.find hands to its callback: up to and
\* including the first match, all of them when nothing matches.
FindVisited(arr) ==
    IF AiIndexes(arr) = {} THEN 1..Len(arr) ELSE 1..Min(AiIndexes(arr))

\* (l: any) => l.license_type === 'ai-license' throws a TypeError on null
FindThrows(arr) == \E i \in FindVisited(arr) : arr[i].tag = "null"

\* licenseArray.find(l => l.license_type === 'ai-license') || licenseArray[0]
SelectLicenseData(arr) ==
    IF AiIndexes(arr) = {} THEN arr[1] ELSE arr[Min(AiIndexes(arr))]

\* found computed from opt-in alone
DeriveFound_OptInOnly(optStatus) == optStatus = "opt-in"

\* const found = optStatus === 'opt-in' || optStatus === 'opt-out'
DeriveFound(optStatus) == optStatus = "opt-in" \/ optStatus = "opt-out"

\* the two branches of the conditional exchanged
DeriveAction_Swapped(optStatus) ==
    IF optStatus = "opt-in" THEN "deny"
    ELSE IF optStatus = "opt-out" THEN "allow"
    ELSE "unknown"

\* optStatus === 'opt-in' ? 'allow' : optStatus === 'opt-out' ? 'deny' : 'unknown'
DeriveAction(optStatus) ==
    IF optStatus = "opt-in" THEN "allow"
    ELSE IF optStatus = "opt-out" THEN "deny"
    ELSE "unknown"

DeriveLicense(url, licenseData) ==
    [url |-> url,
     license_found |-> DeriveFound(licenseData.opt_in_status),
     action |-> DeriveAction(licenseData.opt_in_status),
     error |-> "none"]

\* the expiry compared with >=
CacheLive_NonStrict(cache, url, t) == cache[url].present /\ cache[url].expires >= t

\* cached && cached.expires > Date.now()
CacheLive(cache, url, t) == cache[url].present /\ cache[url].expires > t

\* the TTL added in seconds to a time in milliseconds
CacheInsert_Seconds(cache, url, license, t) ==
    IF config.enableCache
    THEN [cache EXCEPT ![url] =
            [present |-> TRUE, license |-> license,
             expires |-> t + config.cacheTTL]]
    ELSE cache

\* if (enableCache) licenseCache.set(url, {license, expires: Date.now() + cacheTTL * 1000})
CacheInsert(cache, url, license, t) ==
    IF config.enableCache
    THEN [cache EXCEPT ![url] =
            [present |-> TRUE, license |-> license,
             expires |-> t + (config.cacheTTL * 1000)]]
    ELSE cache

\* the deny branch missing: every found license counted as licensed
UpdateSummary_NoDeny(summary, license) ==
    LET s == [summary EXCEPT !.total_urls = @ + 1] IN
    IF license.license_found
    THEN [s EXCEPT !.licensed_content = @ + 1]
    ELSE [s EXCEPT !.unlicensed_content = @ + 1]

\* the else branch missing: a license that was not found counted in the
\* total alone
UpdateSummary_NoUnlicensed(summary, license) ==
    LET s == [summary EXCEPT !.total_urls = @ + 1] IN
    IF license.license_found
    THEN IF license.action = "deny"
         THEN [s EXCEPT !.denied_content = @ + 1]
         ELSE [s EXCEPT !.licensed_content = @ + 1]
    ELSE s

\* total_urls++, then one of denied_content / licensed_content / unlicensed_content
UpdateSummary(summary, license) ==
    LET s == [summary EXCEPT !.total_urls = @ + 1] IN
    IF license.license_found
    THEN IF license.action = "deny"
         THEN [s EXCEPT !.denied_content = @ + 1]
         ELSE [s EXCEPT !.licensed_content = @ + 1]
    ELSE [s EXCEPT !.unlicensed_content = @ + 1]

\* What one run of the code after the await leaves behind.
Effect(raised, threw, message, license, outcome, selected, cache, summary) ==
    [raised |-> raised, threw |-> threw, message |-> message, license |-> license,
     outcome |-> outcome, selected |-> selected, cache |-> cache,
     summary |-> summary]

\* The part of the try block that reads the response and nothing else: the
\* awaited request rejects, or the list is empty, or find throws on a null
\* element, or a record is selected.
ReadResponse(resp) ==
    IF resp.kind \in Rejections
    THEN [outcome |-> "reject", message |-> "AxiosError", licenseData |-> NoItem]
    ELSE LET arr == licenseArray(resp) IN
         IF Len(arr) = 0
         THEN [outcome |-> "empty", message |-> "none", licenseData |-> NoItem]
         ELSE IF FindThrows(arr)
         THEN [outcome |-> "malformed", message |-> "TypeError", licenseData |-> NoItem]
         ELSE [outcome |-> "record", message |-> "none",
               licenseData |-> SelectLicenseData(arr)]

\* Every way the lookup request of one call can end, as the code reads it.
LedgerOutcomes == {ReadResponse(resp) : resp \in Responses}

\* The try block from the await on, given what the response read as: the
\* throw, the early return, or the derivation, the cache insert, the counters.
TryBlock(url, read, cache, summary, t) ==
    IF read.outcome \in {"reject", "malformed"}
    THEN Effect(FALSE, TRUE, read.message, NoLicense, read.outcome, NoItem,
                cache, summary)
    ELSE IF read.outcome = "empty"
    THEN Effect(FALSE, FALSE, "none", UnknownLicense(url), "empty", NoItem,
                cache, summary)
    ELSE LET license == DeriveLicense(url, read.licenseData)
         IN Effect(FALSE, FALSE, "none", license, "record", read.licenseData,
                   CacheInsert(cache, url, license, t),
                   UpdateSummary(summary, license))

\* the catch block without errors++
CatchBlock_NoCount(url, thrown) ==
    [thrown EXCEPT !.license = ErrorLicense(url, thrown.message)]

\* the catch block caching the degraded result it returns
CatchBlock_Caching(url, thrown) ==
    [thrown EXCEPT !.license = ErrorLicense(url, thrown.message),
                   !.summary = [thrown.summary EXCEPT !.errors = @ + 1],
                   !.cache = CacheInsert(thrown.cache, url,
                                         ErrorLicense(url, thrown.message), now)]

\* catch (error) { errors++; return {url, license_found: false, action: 'unknown', error} }
CatchBlock(url, thrown) ==
    [thrown EXCEPT !.license = ErrorLicense(url, thrown.message),
                   !.summary = [thrown.summary EXCEPT !.errors = @ + 1]]

\* checkLicense without its try/catch: what the try block throws escapes
checkLicenseResume_NoCatch(url, read, cache, summary, t) ==
    LET tried == TryBlock(url, read, cache, summary, t) IN
    [tried EXCEPT !.raised = tried.threw]

\* checkLicense from the await to its return
checkLicenseResume(url, read, cache, summary, t) ==
    LET tried == TryBlock(url, read, cache, summary, t) IN
    IF tried.threw THEN CatchBlock(url, tried) ELSE tried

\* checkLicense without the enableTracking test
checkLicenseEnter_NoSwitch(url) ==
    IF config.enableCache /\ CacheLive(licenseCache, url, now)
    THEN [path |-> "hit", license |-> licenseCache[url].license, cacheRead |-> TRUE]
    ELSE [path |-> "request", license |-> NoLicense, cacheRead |-> config.enableCache]

\* checkLicense up to its first await: the tracking switch, then the cache
checkLicenseEnter(url) ==
    IF ~config.enableTracking
    THEN [path |-> "disabled", license |-> UnknownLicense(url), cacheRead |-> FALSE]
    ELSE IF config.enableCache /\ CacheLive(licenseCache, url, now)
    THEN [path |-> "hit", license |-> licenseCache[url].license, cacheRead |-> TRUE]
    ELSE [path |-> "request", license |-> NoLicense, cacheRead |-> config.enableCache]

\* What one run of checkLicense code did, as the model reports it: phase
\* says which run (from the call to the first await or return, or from the
\* await to the return), st where the invocation stands after it.
Report(url, phase, st, result, outcome, selected, issued, cacheRead) ==
    [url |-> url, phase |-> phase, st |-> st, result |-> result,
     outcome |-> outcome, selected |-> selected.opt_in_status, issued |-> issued,
     cacheRead |-> cacheRead]

\* checkLicense(url) is called and runs up to its first await or its return
NewCall(url) ==
    LET e == checkLicenseEnter(url) IN
    Report(url, "enter", IF e.path = "request" THEN "awaiting" ELSE "returned",
           e.license, e.path, NoItem, e.path = "request", e.cacheRead)

\* The invocations a run of calls leaves awaiting the ledger
Awaiting(reports, url) ==
    Cardinality({i \in DOMAIN reports :
                    reports[i].st = "awaiting" /\ reports[i].url = url})

Suspend(reports) ==
    [u \in URLS |-> inflight[u] + Awaiting(reports, u)]

Issued(reports) ==
    Cardinality({i \in DOMAIN reports : reports[i].issued})

\* -------------------------------------------- checkLicenseBatch, the code
EmptyMap == [u \in {} |-> NoLicense]

\* results.set(url, license)
MapSet(results, url, license) ==
    [u \in (DOMAIN results) \cup {url} |-> IF u = url THEN license ELSE results[u]]

Max(S) == CHOOSE x \in S : \A y \in S : x >= y

\* urls.map(url => this.checkLicense(url)...): every checkLicense runs up to
\* its first await before map returns, none of them changing the state.
DispatchedCalls(urls) ==
    [i \in 1..Len(urls) |-> NewCall(urls[i])]

\* The .then(license => results.set(url, license)) of the checks that
\* returned without awaiting, run in dispatch order.
ImmediateResults(new) ==
    LET done == {i \in DOMAIN new : new[i].st = "returned"} IN
    [u \in {new[i].url : i \in done} |->
        new[Max({i \in done : new[i].url = u})].result]

\* the early return missing: the empty list reaches the await too
BatchStateAfterDispatch_NoEarlyReturn(urls) == "dispatched"

\* if (urls.length === 0) return results
BatchStateAfterDispatch(urls) ==
    IF Len(urls) = 0 THEN "returned" ELSE "dispatched"

\* Promise.any in the place of Promise.allSettled
AllSettled_Any == \E u \in Range(batch.urls) : inflight[u] = 0

\* Promise.race in the place of Promise.allSettled
AllSettled_Race == \E u \in URLS : u \in DOMAIN batch.results

\* await Promise.allSettled(promises)
AllSettled == \A u \in URLS : inflight[u] = 0

IdleBatch == [st |-> "idle", urls |-> <<>>, results |-> EmptyMap]

\* The map checkLicenseBatch returned belongs to its caller: the model shows
\* it in the state its return leads to and drops it at the next step.
BatchKept == IF batch.st = "returned" THEN IdleBatch ELSE batch

\* ------------------------------------------------------------------ state
\* no logUsage invocation yet
IdleUsage ==
    [pending |-> <<>>, calls |-> 0, posts |-> 0,
     report |-> [phase |-> "none", tokens |-> 0, st |-> "none",
                 value |-> FALSE, posted |-> FALSE]]

\* no licensedFetchText invocation yet
IdleFetcher == [pc |-> "idle"]

\* no acquireLicenseToken invocation yet
IdleAcquirer == [st |-> "idle"]

\* no synchronous call yet
NoCall == [op |-> "none"]

\* no tool handler invocation yet
NoHandler == [pc |-> "idle"]

\* What ended since the latest resetSession(): the checks that ended with a
\* selected ledger record, the lookups and usage posts that failed, and the
\* tokens of the usage posts that succeeded.
ZeroTally == [records |-> 0, failures |-> 0, tokens |-> 0]

\* A lookup ended, the response read as `read`: a rejected request and a
\* list that find throws on are the failed lookups.
TallyCheck(t, read) ==
    [t EXCEPT !.records = @ + (IF read.outcome = "record" THEN 1 ELSE 0),
              !.failures = @ + (IF read.outcome \in {"reject", "malformed"} THEN 1 ELSE 0)]

\* A usage post ended.
TallyUsage(t, tokens, resolved) ==
    [t EXCEPT !.tokens = @ + (IF resolved THEN tokens ELSE 0),
              !.failures = @ + (IF resolved THEN 0 ELSE 1)]

Init ==
    /\ config \in [enableTracking : BOOLEAN, enableCache : BOOLEAN,
                   cacheTTL : {DefaultCacheTTL}]
    /\ licenseCache = [u \in URLS |-> NoEntry]
    /\ sessionSummary = ZeroSummary(config.enableTracking)
    /\ now = 0
    /\ inflight = [u \in URLS |-> 0]
    /\ batch = IdleBatch
    /\ last = <<>>
    /\ requests = 0
    /\ inserted = [u \in URLS |-> 0 - 1]
    /\ usage = IdleUsage
    /\ fetcher = IdleFetcher
    /\ acquirer = IdleAcquirer
    /\ tokenEncoder = "null"
    /\ caller = NoCall
    /\ tally = ZeroTally
    /\ handler = NoHandler

\* The ledger answers the lookup of an invocation in flight (or the request
\* fails), and checkLicense runs from its await to its return; the .then or
\* .catch chained on it stores the entry.
LookupSettles(url, read) ==
    /\ inflight[url] > 0
    /\ LET call == [url |-> url, cacheRead |-> config.enableCache]
           eff == checkLicenseResume(call.url, read, licenseCache, sessionSummary, now)
       IN /\ licenseCache' = eff.cache
          /\ sessionSummary' = eff.summary
          /\ last' = <<Report(call.url, "resume",
                              IF eff.raised THEN "raised" ELSE "returned",
                              eff.license, eff.outcome, eff.selected,
                              TRUE, call.cacheRead)>>
          /\ inserted' = IF eff.outcome = "record" /\ ~eff.raised
                         THEN [inserted EXCEPT ![call.url] = now]
                         ELSE inserted
          /\ batch' = [batch EXCEPT !.results =
                          MapSet(@, call.url,
                                 IF eff.raised
                                 THEN ErrorLicense(call.url, eff.message)
                                 ELSE eff.license)]
    /\ inflight' = [inflight EXCEPT ![url] = @ - 1]
    /\ tally' = TallyCheck(tally, read)
    /\ UNCHANGED <<handler, config, now, requests, usage, fetchVars, asideVars>>

\* checkLicenseBatch(urls) from its call to its await (or, for an empty
\* list, to its return), as it changes the service.
DispatchBatch(urls) ==
    /\ batch.st # "dispatched"
    /\ last' = DispatchedCalls(urls)
    /\ inflight' = Suspend(last')
    /\ requests' = requests + Issued(last')
    /\ requests' <= MaxOps
    /\ batch' = [st |-> BatchStateAfterDispatch(urls),
                 urls |-> urls,
                 results |-> ImmediateResults(last')]

\* A caller invokes checkLicenseBatch(urls); it runs up to its await (or,
\* for an empty list, to its return).
checkLicenseBatch(urls) ==
    /\ DispatchBatch(urls)
    /\ UNCHANGED <<handler, config, licenseCache, sessionSummary, now, inserted, usage, fetchVars,
                   asideVars, tally>>

\* Promise.allSettled resolves, as it changes the service.
ResolveBatch ==
    /\ batch.st = "dispatched"
    /\ AllSettled
    /\ batch' = [batch EXCEPT !.st = "returned"]
    /\ last' = <<>>

\* Promise.allSettled resolves and checkLicenseBatch returns results.
BatchReturn ==
    /\ ResolveBatch
    /\ UNCHANGED <<handler, config, licenseCache, sessionSummary, now, inflight, requests, inserted,
                   usage, fetchVars, asideVars, tally>>

resetSession ==
    /\ sessionSummary' = ZeroSummary(config.enableTracking)
    /\ last' = <<>>
    /\ batch' = BatchKept
    /\ tally' = ZeroTally
    /\ UNCHANGED <<handler, config, licenseCache, now, inflight, requests, inserted, usage, fetchVars,
                   asideVars>>

\* if (this.tokenEncoder) { try { this.tokenEncoder.free() } catch {} }: the
\* encoder is freed, and freeing it again throws what the catch drops
FreeEncoder(encoder) == IF encoder = "null" THEN "null" ELSE "freed"

\* only the entries that have expired removed
ClearCache_ExpiredOnly(cache) ==
    [u \in DOMAIN cache |->
        IF cache[u].present /\ cache[u].expires > now THEN cache[u] ELSE NoEntry]

\* this.licenseCache.clear()
ClearCache(cache) == [u \in DOMAIN cache |-> NoEntry]

\* this.tokenEncoder.free(), then this.licenseCache.clear()
cleanup ==
    /\ tokenEncoder' = FreeEncoder(tokenEncoder)
    /\ licenseCache' = ClearCache(licenseCache)
    /\ inserted' = [u \in URLS |-> 0 - 1]
    /\ last' = <<>>
    /\ batch' = BatchKept
    /\ UNCHANGED <<handler, config, sessionSummary, now, inflight, requests, usage, fetchVars,
                   caller, tally>>

\* Time passes: half of the cache TTL, so that a run sees instants inside
\* the TTL of an entry, the instant of its expiry and instants after it.
TickMs == config.cacheTTL * 500

Tick ==
    /\ now < MaxTicks * TickMs
    /\ now' = now + TickMs
    /\ last' = <<>>
    /\ batch' = BatchKept
    /\ UNCHANGED <<handler, config, licenseCache, sessionSummary, inflight, requests, inserted,
                   usage, fetchVars, asideVars, tally>>

Next ==
    \/ \E url \in URLS, read \in LedgerOutcomes : LookupSettles(url, read)
    \/ \E urls \in SeqsUpTo(URLS, MaxBatchLen) : checkLicenseBatch(urls)
    \/ BatchReturn
    \/ resetSession
    \/ cleanup
    \/ Tick

Spec == Init /\ [][Next]_vars

\* ================================================================ claims
Counters == {"total_urls", "licensed_content", "unlicensed_content",
             "denied_content", "total_tokens", "errors"}

Degraded(license, url) ==
    /\ license.url = url
    /\ license.license_found = FALSE
    /\ license.action = "unknown"

\* The step is checkLicense running from its await to its return, the
\* response read as one of `outcomes`.
Resumes(outcomes) ==
    /\ Len(last') = 1
    /\ last'[1].phase = "resume"
    /\ last'[1].outcome \in outcomes

ResumedWith(outcomes) ==
    /\ Len(last) = 1
    /\ last[1].phase = "resume"
    /\ last[1].outcome \in outcomes

CacheTTLMs == config.cacheTTL * 1000

\* ---------------------------------------------------------------------- C1
\* C1: whatever the ledger lookup ends with (records, an empty list, a
\* rejected request, a body find throws on), checkLicense returns a
\* LicenseInfo and never raises, and the action it returns is allow, deny or
\* unknown.
C1_NeverRaises ==
    /\ \A i \in DOMAIN last :
          /\ last[i].st \in {"awaiting", "returned"}
          /\ last[i].st = "returned" =>
                /\ last[i].result.url = last[i].url
                /\ last[i].result.action \in {"allow", "deny", "unknown"}
    /\ \A u \in URLS, read \in LedgerOutcomes :
          inflight[u] > 0 =>
             LET eff == checkLicenseResume(u, read, licenseCache, sessionSummary, now)
             IN ~eff.raised /\ eff.license.action \in {"allow", "deny", "unknown"}

C1_Witness ==
    /\ ResumedWith({"malformed"})
    /\ last[1].st = "returned"
    /\ last[1].result.error = "TypeError"

\* ---------------------------------------------------------------------- C2
\* C2: every LicenseInfo checkLicense returns, every entry of the map
\* checkLicenseBatch builds and every LicenseInfo in the cache has
\* action = unknown when license_found is false.
C2_NotFoundIsUnknown ==
    /\ \A i \in DOMAIN last :
          (last[i].st = "returned" /\ ~last[i].result.license_found)
             => last[i].result.action = "unknown"
    /\ \A u \in DOMAIN batch.results :
          ~batch.results[u].license_found => batch.results[u].action = "unknown"
    /\ \A u \in URLS :
          (licenseCache[u].present /\ ~licenseCache[u].license.license_found)
             => licenseCache[u].license.action = "unknown"

C2_Witness ==
    /\ batch.st = "returned"
    /\ \E u \in DOMAIN batch.results :
          /\ ~batch.results[u].license_found
          /\ licenseCache[u].present
          /\ ~licenseCache[u].license.license_found
    /\ \E u \in DOMAIN batch.results : batch.results[u].action = "deny"

\* ---------------------------------------------------------------------- C3
\* C3: for the record checkLicense selected, opt-in gives allow and found,
\* opt-out gives deny and found, any other status gives unknown and not
\* found.
C3_TriState ==
    ResumedWith({"record"}) =>
       LET status == last[1].selected
           license == last[1].result
       IN /\ status = "opt-in" =>
                (license.action = "allow" /\ license.license_found)
          /\ status = "opt-out" =>
                (license.action = "deny" /\ license.license_found)
          /\ status \notin {"opt-in", "opt-out"} =>
                (license.action = "unknown" /\ ~license.license_found)

C3_Witness ==
    /\ ResumedWith({"record"})
    /\ last[1].selected = "opt-out"
    /\ last[1].result.action = "deny"

\* ---------------------------------------------------------------------- C4
Unchanged(fields) == \A f \in fields : sessionSummary'[f] = sessionSummary[f]

\* total_urls and the one counter found/action choose go up by one, the
\* other counters stay
CountedOnce(license) ==
    LET chosen == IF license.license_found
                  THEN IF license.action = "deny"
                       THEN "denied_content" ELSE "licensed_content"
                  ELSE "unlicensed_content"
    IN /\ sessionSummary'.total_urls = sessionSummary.total_urls + 1
       /\ sessionSummary'[chosen] = sessionSummary[chosen] + 1
       /\ Unchanged((Counters \cup {"tracking_enabled"}) \ {"total_urls", chosen})

\* C4 as claimed: every check whose lookup succeeds, the response with zero
\* records included, adds one to total_urls and to exactly one of
\* licensed_content, unlicensed_content, denied_content.
C4_Original ==
    [][Resumes({"record", "empty"}) => CountedOnce(last'[1].result)]_vars

\* C4, amended: a check that selected a record adds one to total_urls and
\* to exactly one of the three (denied when found and deny, licensed when
\* found and not deny, unlicensed when not found); a response with zero
\* records changes no counter.
C4_CountedOncePerRecord ==
    [][/\ Resumes({"record"}) => CountedOnce(last'[1].result)
       /\ Resumes({"empty"}) => sessionSummary' = sessionSummary]_vars

C4_Witness ==
    /\ ResumedWith({"record"})
    /\ last[1].result.license_found
    /\ last[1].result.action = "deny"
    /\ sessionSummary.denied_content = 1
    /\ sessionSummary.total_urls = 2

\* ---------------------------------------------------------------------- C5
\* C5: when the lookup request fails, checkLicense returns license_found
\* false, action unknown and an error, adds one to errors, and leaves the
\* other counters and the cache as they were.
C5_FailedLookup ==
    [][Resumes({"reject"}) =>
          /\ last'[1].st = "returned"
          /\ Degraded(last'[1].result, last'[1].url)
          /\ last'[1].result.error # "none"
          /\ sessionSummary'.errors = sessionSummary.errors + 1
          /\ Unchanged((Counters \cup {"tracking_enabled"}) \ {"errors"})
          /\ licenseCache' = licenseCache]_vars

C5_Witness ==
    /\ ResumedWith({"reject"})
    /\ last[1].result.error # "none"
    /\ sessionSummary.errors = 1
    /\ \E u \in URLS : licenseCache[u].present

\* ---------------------------------------------------------------------- C6
\* The checks that entered in the latest step entered at the same instant.
EnteredTogether(i, j) ==
    /\ i \in DOMAIN last /\ j \in DOMAIN last /\ i < j
    /\ last[i].phase = "enter" /\ last[j].phase = "enter"
    /\ last[i].url = last[j].url

\* C6 as claimed: with caching enabled two checks of one URL started within
\* the TTL of each other, also when the second starts while the first still
\* awaits the ledger (a duplicate URL in one batch), issue one request
\* between them.
C6_Original ==
    (config.enableTracking /\ config.enableCache) =>
       \A i, j \in DOMAIN last :
          EnteredTogether(i, j) => ~(last[i].issued /\ last[j].issued)

\* A check of url has returned with a selected record, cleanup has not run
\* since, and less than the TTL has passed since that return.
RecordWithinTTL(url) ==
    inserted[url] >= 0 /\ now < inserted[url] + CacheTTLMs

\* C6 as amended: with caching enabled a check issues no lookup request
\* exactly when an earlier check of its URL has returned with a selected
\* record less than the TTL ago and cleanup has not run since; in every
\* other case (the earlier check still awaits the ledger, as for a duplicate
\* URL in one batch; it ended with no record or with a failure; the TTL has
\* elapsed) it issues its own request.
C6_CacheRoundTrip ==
    config.enableTracking =>
       \A i \in DOMAIN last :
          last[i].phase = "enter" =>
             (last[i].issued <=> ~(config.enableCache /\ RecordWithinTTL(last[i].url)))

C6_Witness ==
    /\ config.enableCache
    /\ Len(last) = 2
    /\ last[1].phase = "enter" /\ last[1].outcome = "hit" /\ ~last[1].issued
    /\ last[2].phase = "enter" /\ last[2].issued
    /\ now > inserted[last[1].url]
    /\ requests = 2

\* ---------------------------------------------------------------------- C7
\* C7 as claimed: no cache entry holds a LicenseInfo with license_found
\* false or with an error.
C7_Original ==
    \A u \in URLS :
       licenseCache[u].present =>
          (licenseCache[u].license.license_found /\ licenseCache[u].license.error = "none")

\* C7 as amended: no cache entry holds an error, and an entry exists only
\* for a URL of which a check returned with a selected record since the last
\* cleanup, so a failed lookup and a response with zero records are not
\* cached; the entry of a record whose status is neither opt-in nor opt-out
\* has license_found false.
C7_NoErrorCached ==
    \A u \in URLS :
       licenseCache[u].present =>
          /\ licenseCache[u].license.error = "none"
          /\ licenseCache[u].license.url = u
          /\ inserted[u] >= 0

C7_Witness ==
    \E u \in URLS :
       /\ licenseCache[u].present
       /\ ~licenseCache[u].license.license_found
       /\ ResumedWith({"record"})
       /\ last[1].url = u

\* ---------------------------------------------------------------------- C8
\* C8: checkLicenseBatch starts one checkLicense per input URL in the step
\* of the call, before it awaits; it returns only when none of them is still
\* awaiting; the map it returns has the distinct input URLs as its keys; a
\* failed check leaves a degraded entry and every other URL still gets its
\* entry.
C8_BatchSettlesAll ==
    /\ (Len(last) > 0 /\ last[1].phase = "enter") =>
          /\ batch.st = "dispatched"
          /\ Len(last) = Len(batch.urls)
          /\ \A i \in DOMAIN last :
                last[i].phase = "enter" /\ last[i].url = batch.urls[i]
    /\ batch.st = "dispatched" =>
          \A u \in Range(batch.urls) : u \in DOMAIN batch.results \/ inflight[u] > 0
    /\ batch.st = "returned" =>
          /\ \A u \in URLS : inflight[u] = 0
          /\ DOMAIN batch.results = Range(batch.urls)
    /\ ResumedWith({"reject", "malformed"}) =>
          /\ last[1].url \in DOMAIN batch.results
          /\ Degraded(batch.results[last[1].url], last[1].url)
          /\ batch.results[last[1].url].error # "none"

C8_Witness ==
    /\ batch.st = "returned"
    /\ Cardinality(DOMAIN batch.results) = 2
    /\ \E u \in DOMAIN batch.results : batch.results[u].error # "none"
    /\ \E u \in DOMAIN batch.results : batch.results[u].license_found

\* ---------------------------------------------------------------------- C9
\* The step is a call of checkLicenseBatch with the empty list.
EmptyBatchCall ==
    /\ batch.st # "dispatched"
    /\ batch'.st # "idle"
    /\ batch'.urls = <<>>

\* C9: checkLicenseBatch of the empty list returns the empty map, issues no
\* request and leaves the cache and the session counters as they were.
C9_EmptyBatch ==
    [][EmptyBatchCall =>
          /\ batch'.st = "returned"
          /\ batch'.results = EmptyMap
          /\ requests' = requests
          /\ inflight' = inflight
          /\ licenseCache' = licenseCache
          /\ sessionSummary' = sessionSummary]_vars

C9_Witness ==
    /\ batch.st = "returned"
    /\ batch.urls = <<>>
    /\ requests = 2
    /\ \E u \in URLS : licenseCache[u].present
    /\ sessionSummary.total_urls = 2

\* --------------------------------------------------------------------- C10
\* C10: with tracking disabled checkLicense returns license_found false and
\* action unknown for every URL, issues no request, neither reads nor
\* writes the cache and changes no counter.
C10_TrackingDisabled ==
    ~config.enableTracking =>
       /\ \A i \in DOMAIN last :
             /\ last[i].st = "returned"
             /\ last[i].result = UnknownLicense(last[i].url)
             /\ ~last[i].issued
             /\ ~last[i].cacheRead
       /\ requests = 0
       /\ \A u \in URLS : inflight[u] = 0 /\ ~licenseCache[u].present
       /\ sessionSummary = ZeroSummary(FALSE)

C10_Witness ==
    /\ ~config.enableTracking
    /\ config.enableCache
    /\ Len(last) = 2
    /\ last[1].url # last[2].url
    /\ now > 0

\* --------------------------------------------------------------------- C31
\* The check that entered as the i-th of the step returned from the cache.
ServedFromCache(i) ==
    /\ last'[i].outcome = "hit"
    /\ last'[i].st = "returned"
    /\ ~last'[i].issued

\* C31: with caching enabled a check of a URL is served from the cache
\* exactly when the cache has an entry of the URL and less than 1000 * TTL
\* milliseconds have passed since the entry was written (at the instant of
\* expiry it is a miss); a check served from the cache returns the stored
\* LicenseInfo and issues no request, and it changes neither a session
\* counter nor the entry.
C31_CacheHit ==
    [][(config.enableTracking /\ config.enableCache) =>
          \A i \in DOMAIN last' :
             last'[i].phase = "enter" =>
                LET url == last'[i].url IN
                /\ ServedFromCache(i) <=>
                      /\ licenseCache[url].present
                      /\ now < inserted[url] + (1000 * config.cacheTTL)
                /\ ServedFromCache(i) =>
                      /\ last'[i].result = licenseCache[url].license
                      /\ licenseCache'[url] = licenseCache[url]
                      /\ sessionSummary' = sessionSummary
                /\ requests' - requests =
                      Cardinality({j \in DOMAIN last' : ~ServedFromCache(j)})]_vars

\* A check was served from the cache half a TTL after the entry was
\* written, and a check of the other URL went to the ledger.
C31_Witness ==
    /\ config.enableTracking /\ config.enableCache
    /\ Len(last) = 2
    /\ last[1].phase = "enter" /\ last[1].outcome = "hit"
    /\ last[1].result = licenseCache[last[1].url].license
    /\ now = inserted[last[1].url] + TickMs
    /\ last[2].phase = "enter" /\ last[2].issued
    /\ last[2].url # last[1].url

\* ================================================================ logUsage
\* most tokens one logUsage call reports
MaxTokens == 2
\* logUsage calls in one run
MaxUsageCalls == 3

\* What config.apiKey can hold: process.env.COPYRIGHTSH_LEDGER_API_KEY is
\* unset, set to the empty string, or set to a key.
ApiKeys == {"undefined", "", "key"}

\* !this.config.apiKey
NoApiKey(apiKey) == apiKey \in {"undefined", ""}

\* What one run of logUsage code did: phase says which run, st where the
\* invocation stands after it, value what it returned, posted whether the
\* invocation has issued its POST /api/v1/usage/log.
UsageReport(phase, tokens, st, value, posted) ==
    [phase |-> phase, tokens |-> tokens, st |-> st, value |-> value,
     posted |-> posted]

\* the zero-token guard missing
logUsageEnter_NoZeroTest(tokens) ==
    IF ~config.enableTracking \/ NoApiKey(config.apiKey)
    THEN UsageReport("enter", tokens, "returned", FALSE, FALSE)
    ELSE UsageReport("enter", tokens, "awaiting", FALSE, TRUE)

\* logUsage up to its await: the two guards, then the POST
logUsageEnter(tokens) ==
    IF ~config.enableTracking \/ NoApiKey(config.apiKey)
    THEN UsageReport("enter", tokens, "returned", FALSE, FALSE)
    ELSE IF tokens = 0
    THEN UsageReport("enter", tokens, "returned", FALSE, FALSE)
    ELSE UsageReport("enter", tokens, "awaiting", FALSE, TRUE)

\* the failure counted as tokens too
logUsageSummary_CountsFailure(summary, tokens, resolved) ==
    [summary EXCEPT !.total_tokens = @ + tokens]

\* a failed post taking its tokens back from the total
logUsageSummary_Refund(summary, tokens, resolved) ==
    IF resolved
    THEN [summary EXCEPT !.total_tokens = @ + tokens]
    ELSE [summary EXCEPT !.errors = @ + 1, !.total_tokens = @ - tokens]

\* total_tokens = tokens in the place of total_tokens += tokens
logUsageSummary_Overwrite(summary, tokens, resolved) ==
    IF resolved
    THEN [summary EXCEPT !.total_tokens = tokens]
    ELSE [summary EXCEPT !.errors = @ + 1]

\* total_tokens += tokens after the await, errors++ in the catch
logUsageSummary(summary, tokens, resolved) ==
    IF resolved
    THEN [summary EXCEPT !.total_tokens = @ + tokens]
    ELSE [summary EXCEPT !.errors = @ + 1]

\* logUsage from its await to its return: true after the try, false from
\* the catch
logUsageResume(tokens, resolved) ==
    UsageReport("resume", tokens, "returned", resolved, TRUE)

\* the sequence without its i-th element
Remove(seq, i) ==
    [j \in 1..(Len(seq) - 1) |-> IF j < i THEN seq[j] ELSE seq[j + 1]]

InitUsage ==
    /\ config \in [enableTracking : BOOLEAN, enableCache : {FALSE},
                   cacheTTL : {DefaultCacheTTL}, apiKey : ApiKeys]
    /\ licenseCache = [u \in URLS |-> NoEntry]
    /\ sessionSummary = ZeroSummary(config.enableTracking)
    /\ now = 0
    /\ inflight = [u \in URLS |-> 0]
    /\ batch = IdleBatch
    /\ last = <<>>
    /\ requests = 0
    /\ inserted = [u \in URLS |-> 0 - 1]
    /\ usage = IdleUsage
    /\ fetcher = IdleFetcher
    /\ acquirer = IdleAcquirer
    /\ tokenEncoder = "null"
    /\ caller = NoCall
    /\ tally = ZeroTally
    /\ handler = NoHandler

\* A caller invokes logUsage(url, tokens, license, stage, distribution); it
\* runs to its return or to its await.
logUsage(tokens) ==
    /\ usage.calls < MaxUsageCalls
    /\ LET r == logUsageEnter(tokens) IN
       usage' = [pending |-> IF r.st = "awaiting"
                             THEN Append(usage.pending, tokens)
                             ELSE usage.pending,
                 calls |-> usage.calls + 1,
                 posts |-> usage.posts + (IF r.posted THEN 1 ELSE 0),
                 report |-> r]
    /\ UNCHANGED <<handler, config, sessionSummary, checkVars, fetchVars, asideVars, tally>>

\* The ledger answers the POST of an invocation in flight, or the request
\* fails, and logUsage runs from its await to its return.
UsageLogSettles(i, resolved) ==
    /\ i \in DOMAIN usage.pending
    /\ sessionSummary' = logUsageSummary(sessionSummary, usage.pending[i], resolved)
    /\ usage' = [usage EXCEPT !.pending = Remove(@, i),
                              !.report = logUsageResume(usage.pending[i], resolved)]
    /\ tally' = TallyUsage(tally, usage.pending[i], resolved)
    /\ UNCHANGED <<handler, config, checkVars, fetchVars, asideVars>>

\* resetSession() between the runs of logUsage
resetSessionUsage ==
    /\ sessionSummary' = ZeroSummary(config.enableTracking)
    /\ usage' = [usage EXCEPT !.report = IdleUsage.report]
    /\ tally' = ZeroTally
    /\ UNCHANGED <<handler, config, checkVars, fetchVars, asideVars>>

NextUsage ==
    \/ \E tokens \in 0..MaxTokens : logUsage(tokens)
    \/ \E i \in 1..MaxUsageCalls, resolved \in BOOLEAN : UsageLogSettles(i, resolved)
    \/ resetSessionUsage

SpecUsage == InitUsage /\ [][NextUsage]_vars

\* The step is a run of logUsage from the call on.
UsageEnters == usage'.calls = usage.calls + 1

\* The step is a run of logUsage from its await on.
UsageResumes == Len(usage'.pending) = Len(usage.pending) - 1

\* --------------------------------------------------------------------- C12
\* C12: when tracking is disabled, or the API key is missing, or tokens is
\* 0, logUsage returns false at once, issues no ledger request and leaves
\* total_tokens, errors and every other session counter as they were.
C12_UsageNoOp ==
    [][(/\ UsageEnters
        /\ \/ ~config.enableTracking
           \/ config.apiKey \in {"undefined", ""}
           \/ usage'.report.tokens = 0)
       => /\ usage'.report.st = "returned"
          /\ usage'.report.value = FALSE
          /\ ~usage'.report.posted
          /\ usage'.posts = usage.posts
          /\ usage'.pending = usage.pending
          /\ sessionSummary' = sessionSummary]_vars

C12_Witness ==
    /\ config.enableTracking
    /\ config.apiKey = "key"
    /\ usage.report.phase = "enter"
    /\ usage.report.tokens = 0
    /\ usage.report.st = "returned"
    /\ usage.posts = 1
    /\ Len(usage.pending) = 1

\* --------------------------------------------------------------------- C13
\* C13: a logUsage that posted returns without throwing; when the request
\* succeeded it returns true, total_tokens is up by tokens and errors is as
\* it was; when the request failed it returns false, errors is up by one
\* and total_tokens is as it was.  It posts exactly when tracking is
\* enabled, the key is present and tokens is not 0.
C13_UsagePosted ==
    [][/\ UsageEnters =>
            (usage'.report.posted <=>
                (/\ config.enableTracking
                 /\ config.apiKey = "key"
                 /\ usage'.report.tokens # 0))
       /\ UsageResumes =>
            /\ usage'.report.st = "returned"
            /\ usage'.report.posted
            /\ IF usage'.report.value
               THEN /\ sessionSummary'.total_tokens =
                          sessionSummary.total_tokens + usage'.report.tokens
                    /\ Unchanged((Counters \cup {"tracking_enabled"}) \ {"total_tokens"})
               ELSE /\ sessionSummary'.errors = sessionSummary.errors + 1
                    /\ Unchanged((Counters \cup {"tracking_enabled"}) \ {"errors"})]_vars

C13_Witness ==
    /\ usage.report.phase = "resume"
    /\ usage.report.value
    /\ usage.report.tokens = 2
    /\ sessionSummary.total_tokens = 3
    /\ sessionSummary.errors = 1

\* ====================================================== licensedFetchText
\* longest response body
MaxBodyLen == 2
\* largest character budget a caller passes as maxChars
MaxBudget == 1

\* const maxChars = opts.maxChars ?? 200_000
DefaultMaxChars == 200000

\* A response body is a sequence of characters; the bodies of the model are
\* the prefixes of this text.
BodyText == <<"a", "b", "c", "d">>
Bodies == {SubSeq(BodyText, 1, n) : n \in 0..MaxBodyLen}

\* slice with the end index included: one character more than asked for
Slice_Inclusive(text, end) ==
    LET len == Len(text)
        to == IF end < 0
              THEN (IF len + end < 0 THEN 0 ELSE len + end)
              ELSE (IF end + 1 > len THEN len ELSE end + 1)
    IN SubSeq(text, 1, to)

\* String.prototype.slice(0, end): a negative end counts from the end of
\* the string, and the result is empty when end is not after the start.
Slice(text, end) ==
    LET len == Len(text)
        to == IF end < 0
              THEN (IF len + end < 0 THEN 0 ELSE len + end)
              ELSE (IF end > len THEN len ELSE end)
    IN SubSeq(text, 1, to)

\* headers.get(name): null when the response has no such header
AbsentHeader == [present |-> FALSE, text |-> <<>>]
Header(text) == [present |-> TRUE, text |-> text]

\* String.prototype.toLowerCase, on the characters of the model
ToLowerCase(text) ==
    [i \in DOMAIN text |-> IF text[i] = "X" THEN "x"
                           ELSE IF text[i] = "V" THEN "v"
                           ELSE text[i]]

\* String.prototype.includes
Includes(text, pattern) ==
    \E i \in 0..(Len(text) - Len(pattern)) :
       SubSeq(text, i + 1, i + Len(pattern)) = pattern

\* (header || '')
OrEmpty(header) == IF header.present THEN header.text ELSE <<>>

\* any payment header taken as an x402 advertisement
IsX402_AnyHeader(paymentRequiredHeader, paymentProtocolHeader) ==
    paymentRequiredHeader.present \/ paymentProtocolHeader.present

\* const isX402 = (paymentRequiredHeader || '').toLowerCase().includes('x402')
\*             || (paymentProtocolHeader || '').toLowerCase().includes('x402')
IsX402(paymentRequiredHeader, paymentProtocolHeader) ==
    \/ Includes(ToLowerCase(OrEmpty(paymentRequiredHeader)), <<"x", "4", "0", "2">>)
    \/ Includes(ToLowerCase(OrEmpty(paymentProtocolHeader)), <<"x", "4", "0", "2">>)

\* a || b on header values, "null" standing for null
OrElse(a, b) == IF a \in {"null", ""} THEN b ELSE a

\* a ?? b on options, "undefined" standing for undefined
Coalesce(a, b) == IF a = "undefined" THEN b ELSE a

\* every header value that is present taken as it is
parseStage_Unchecked(value, fallback) ==
    IF value \notin {"null", ""} THEN value ELSE fallback

parseStage(value, fallback) ==
    IF value \in {"infer", "embed", "tune", "train"} THEN value
    ELSE IF value = "default" THEN fallback
    ELSE fallback

parseDistribution(value, fallback) ==
    IF value \in {"private", "public"} THEN value ELSE fallback

\* every request other than 200 taken as a payment challenge
IsPaymentRequired_NotOk(status) == status # 200

\* first.status !== 402, negated
IsPaymentRequired(status) == status = 402

Statuses == {200, 402, 403}

\* What a fetch gives when it resolves.  url is Response.url, the URL after
\* redirects, empty when the response carries none.  The challenge headers
\* are read from a 402 alone, so the other responses are taken without them.
NoResponse ==
    [kind |-> "none", status |-> 0, url |-> "", contentType |-> "null",
     paymentRequired |-> AbsentHeader, paymentProtocol |-> AbsentHeader,
     stage |-> "null", distribution |-> "null", licenseDistribution |-> "null"]

\* The payment-required and x-payment-protocol headers of a 402: both
\* absent, one of them naming x402 in upper case after a prefix, both naming
\* something else.
PaymentHeaderPairs ==
    {<<AbsentHeader, AbsentHeader>>,
     <<Header(<<"v", "1", " ", "X", "4", "0", "2">>), AbsentHeader>>,
     <<AbsentHeader, Header(<<"v", "1", " ", "X", "4", "0", "2">>)>>,
     <<Header(<<"p", "a", "y">>), Header(<<"p", "a", "y">>)>>}

\* The x402-distribution and x-license-distribution headers of a 402
DistributionHeaderPairs ==
    {<<"null", "null">>, <<"null", "public">>, <<"bogus", "public">>}

\* The responses a fetch of one of `targets` can resolve with
ResponsesTo(targets) ==
    {[NoResponse EXCEPT !.kind = "response", !.status = st, !.url = u,
                        !.contentType = ct] :
        st \in Statuses \ {402}, u \in {"", "redirected"} \cup targets,
        ct \in {"null", "text/html"}}
      \cup
    {[kind |-> "response", status |-> 402, url |-> u, contentType |-> ct,
      paymentRequired |-> p[1], paymentProtocol |-> p[2], stage |-> sg,
      distribution |-> d[1], licenseDistribution |-> d[2]] :
        u \in {"", "redirected"} \cup targets, ct \in {"null", "text/html"},
        p \in PaymentHeaderPairs, sg \in {"null", "train", "bogus"},
        d \in DistributionHeaderPairs}

\* What a fetch rejects with: the network failure, the deadline's abort.
FetchFailures ==
    {[name |-> "TypeError", message |-> "fetch failed"],
     [name |-> "AbortError", message |-> "This operation was aborted"]}

\* error?.message || String(error)
ErrorText(error) ==
    IF error.message # "" THEN error.message ELSE error.name

\* What first.text() / second.text() settles with
TextOutcomes ==
    [ok : {TRUE}, body : Bodies] \cup {[ok |-> FALSE, body |-> <<>>]}

\* response.text().catch(() => '')
TextOrEmpty(outcome) == IF outcome.ok THEN outcome.body ELSE <<>>

\* opts of a call: maxChars given or not, stage and distribution given or not
FetchOptions ==
    [maxChars : [given : {TRUE}, value : (0 - 1)..MaxBudget]
                   \cup {[given |-> FALSE, value |-> 0]},
     defaults : {[stage |-> "undefined", distribution |-> "undefined"],
                 [stage |-> "embed", distribution |-> "public"]}]

\* const maxChars = opts.maxChars ?? 200_000
MaxCharsOf(opts) ==
    IF opts.maxChars.given THEN opts.maxChars.value ELSE DefaultMaxChars

\* The ledger's answer to an acquisition
AcquireResponse ==
    [licensed_url |-> "licensed", cost |-> 3, currency |-> "USD",
     expires_at |-> "2026", license_version_id |-> 7, license_sig |-> "sig"]

NoAcquire ==
    [licensed_url |-> "", cost |-> 0, currency |-> "", expires_at |-> "",
     license_version_id |-> 0, license_sig |-> ""]

\* What the acquisition request ends with: rejected (timeout, transport
\* error, non-2xx status), or resolved with the ledger's answer.
AcquireOutcomes ==
    {[ok |-> FALSE, data |-> NoAcquire, message |-> "AxiosError"],
     [ok |-> TRUE, data |-> AcquireResponse, message |-> "none"]}

ConfigError == "COPYRIGHTSH_LEDGER_API_KEY is required for /api/v1/licenses/acquire"

\* ------------------------------------------------- acquireLicenseToken
\* What the acquireLicenseToken invocation of a fetch did: st where it
\* stands, posts how many POST /api/v1/licenses/acquire it has issued,
\* params what it was called with, value what it returned, error what it
\* threw.
NotAcquiring ==
    [st |-> "idle", posts |-> 0,
     params |-> [url |-> "", stage |-> "", distribution |-> ""],
     value |-> NoAcquire, error |-> "none"]

\* the key test missing: the request goes out without a key
AcquireEnter_NoKeyTest(params) ==
    [NotAcquiring EXCEPT !.st = "awaiting", !.posts = 1, !.params = params]

\* acquireLicenseToken up to its await: the key test, then the POST
AcquireEnter(params) ==
    IF NoApiKey(config.apiKey)
    THEN [NotAcquiring EXCEPT !.st = "thrown", !.params = params,
                              !.error = ConfigError]
    ELSE [NotAcquiring EXCEPT !.st = "awaiting", !.posts = 1, !.params = params]

\* a rejected request posted once more
AcquireResume_Retry(acq, outcome) ==
    IF outcome.ok
    THEN [acq EXCEPT !.st = "returned", !.value = outcome.data]
    ELSE [acq EXCEPT !.posts = @ + 1]

\* acquireLicenseToken from its await on: return response.data, or the
\* rejection of the awaited POST leaves the function as it is
AcquireResume(acq, outcome) ==
    IF outcome.ok
    THEN [acq EXCEPT !.st = "returned", !.value = outcome.data]
    ELSE [acq EXCEPT !.st = "thrown", !.error = outcome.message]

\* ---------------------------------------------- licensedFetchText, the code
NoContent == [present |-> FALSE, text |-> <<>>]
Content(text) == [present |-> TRUE, text |-> text]

\* The x402 object of a result: of its fields the model keeps stage and
\* distribution; price, payto and facilitator_url are header values copied
\* in the same way.
NoChallenge == [present |-> FALSE, stage |-> "null", distribution |-> "null"]
ChallengeOf(first) ==
    [present |-> TRUE, stage |-> first.stage,
     distribution |-> OrElse(first.distribution, first.licenseDistribution)]

NoAcquireInfo == [present |-> FALSE, data |-> NoAcquire]
AcquireInfo(acquire) == [present |-> TRUE, data |-> acquire]

\* A LicensedFetchResult; error "none", content NoContent, x402 NoChallenge
\* and acquire NoAcquireInfo stand for the absent field.
FetchResult(requested_url, final_url, status, content_type, content, payment_attempted, payment_required, x402, acquire, error) ==
    [requested_url |-> requested_url, final_url |-> final_url,
     status |-> status, content_type |-> content_type, content |-> content,
     payment_attempted |-> payment_attempted,
     payment_required |-> payment_required,
     x402 |-> x402, acquire |-> acquire, error |-> error]

NoResult ==
    FetchResult("", "", 0 - 1, "null", NoContent, FALSE, FALSE, NoChallenge,
                NoAcquireInfo, "none")

\* The licensedFetchText invocation: pc the await it stands at, its
\* arguments, its locals first, acquire, second and the caught error, the
\* URLs it has fetched, the number of acquireLicenseToken calls it has
\* made, the text it read and from which response, and its result.
NotFetching ==
    [pc |-> "idle", url |-> "", opts |-> [maxChars |-> [given |-> FALSE, value |-> 0],
                                         defaults |-> [stage |-> "undefined",
                                                       distribution |-> "undefined"]],
     first |-> NoResponse, acquire |-> NoAcquire, second |-> NoResponse,
     error |-> "none", targets |-> <<>>, acquisitions |-> 0,
     read |-> "none", text |-> [ok |-> FALSE, body |-> <<>>],
     result |-> NoResult]

\* first.url || url
FirstUrl(f) == IF f.first.url # "" THEN f.first.url ELSE f.url

\* the error left out of the result
FirstFailureResult_NoError(url, error) ==
    FetchResult(url, url, 0, "null", NoContent, FALSE, FALSE, NoChallenge,
                NoAcquireInfo, "none")

\* the return of the catch around the first fetch
FirstFailureResult(url, error) ==
    FetchResult(url, url, 0, "null", NoContent, FALSE, FALSE, NoChallenge,
                NoAcquireInfo, ErrorText(error))

\* payment_required: true in a result of a response that is no 402
SuccessResult_Required(f, text) ==
    FetchResult(f.url, FirstUrl(f), f.first.status, f.first.contentType,
                Content(Slice(text, MaxCharsOf(f.opts))), FALSE, TRUE,
                NoChallenge, NoAcquireInfo, "none")

\* the return of the first.status !== 402 branch
SuccessResult(f, text) ==
    FetchResult(f.url, FirstUrl(f), f.first.status, f.first.contentType,
                Content(Slice(text, MaxCharsOf(f.opts))), FALSE, FALSE,
                NoChallenge, NoAcquireInfo, "none")

\* the return of the !isX402 branch
UnrecognizedResult(f, body) ==
    FetchResult(f.url, FirstUrl(f), f.first.status, f.first.contentType,
                Content(Slice(body, MaxCharsOf(f.opts))), FALSE, TRUE,
                ChallengeOf(f.first), NoAcquireInfo,
                "HTTP 402 received but did not advertise x402 in payment-required header")

\* the licensed URL reported also when the response names another
SecondUrl_Licensed(f) == f.acquire.licensed_url

\* second.url || acquire.licensed_url
SecondUrl(f) == IF f.second.url # "" THEN f.second.url ELSE f.acquire.licensed_url

\* the return at the end of the try block
FinalResult(f, secondText) ==
    FetchResult(f.url, SecondUrl(f), f.second.status, f.second.contentType,
                Content(Slice(secondText, MaxCharsOf(f.opts))), TRUE, TRUE,
                ChallengeOf(f.first), AcquireInfo(f.acquire), "none")

\* the error left out of the result
FailedResult_NoError(f, body) ==
    FetchResult(f.url, FirstUrl(f), f.first.status, f.first.contentType,
                Content(Slice(body, MaxCharsOf(f.opts))), TRUE, TRUE,
                ChallengeOf(f.first), NoAcquireInfo, "none")

\* the acquisition kept in the result of the catch block when there was one
FailedResult_KeepsAcquire(f, body) ==
    FetchResult(f.url, FirstUrl(f), f.first.status, f.first.contentType,
                Content(Slice(body, MaxCharsOf(f.opts))), TRUE, TRUE,
                ChallengeOf(f.first),
                IF f.acquire = NoAcquire THEN NoAcquireInfo ELSE AcquireInfo(f.acquire),
                f.error)

\* the return of the catch block around the acquisition and the second fetch
FailedResult(f, body) ==
    FetchResult(f.url, FirstUrl(f), f.first.status, f.first.contentType,
                Content(Slice(body, MaxCharsOf(f.opts))), TRUE, TRUE,
                ChallengeOf(f.first), NoAcquireInfo, f.error)

\* the arguments of opts.ledger.acquireLicenseToken
AcquireParams(f, first) ==
    [url |-> f.url,
     stage |-> parseStage(ChallengeOf(first).stage,
                          Coalesce(f.opts.defaults.stage, "infer")),
     distribution |-> parseDistribution(ChallengeOf(first).distribution,
                                        Coalesce(f.opts.defaults.distribution, "private"))]

\* What a fetch of one of `targets` settles with: a rejection or a response
FetchOutcomes(targets) ==
    [ok : {FALSE}, response : {NoResponse}, error : FetchFailures]
      \cup [ok : {TRUE}, response : ResponsesTo(targets),
            error : {[name |-> "", message |-> ""]}]

\* What the first fetch settles with
FirstFetchOutcomes == FetchOutcomes(URLS)

\* What the second fetch settles with; its challenge headers are not read,
\* a second 402 is taken without them.
SecondFetchOutcomes ==
    {o \in FetchOutcomes({AcquireResponse.licensed_url}) :
        /\ o.response.paymentRequired = AbsentHeader
        /\ o.response.paymentProtocol = AbsentHeader
        /\ o.response.stage = "null"
        /\ o.response.distribution = "null"
        /\ o.response.licenseDistribution = "null"}

\* A response to a fetch of target carries target, the URL a redirect led
\* to, or no URL.
AnswersTo(outcome, target) ==
    outcome.response.url \in {"", "redirected", target}

\* licensedFetchText from the call to the await of the first fetch
FetchEnter(url, opts) ==
    [NotFetching EXCEPT !.pc = "first_fetch", !.url = url, !.opts = opts,
                        !.targets = <<url>>]

\* The first response decides whether the acquisition is called.
Challenged(first) ==
    /\ IsPaymentRequired(first.status)
    /\ IsX402(first.paymentRequired, first.paymentProtocol)

\* licensedFetchText from the first fetch's settling to the next await or
\* to the return of the first catch; acq is what the acquireLicenseToken
\* call, when it is made, runs to.
AfterFirstFetch(f, outcome, acq) ==
    IF ~outcome.ok
    THEN [f EXCEPT !.pc = "done",
                   !.result = FirstFailureResult(f.url, outcome.error)]
    ELSE LET g == [f EXCEPT !.first = outcome.response] IN
         IF ~IsPaymentRequired(g.first.status)
         THEN [g EXCEPT !.pc = "success_text"]
         ELSE IF ~IsX402(g.first.paymentRequired, g.first.paymentProtocol)
         THEN [g EXCEPT !.pc = "unrecognized_text"]
         ELSE IF acq.st = "thrown"
         THEN [g EXCEPT !.pc = "failed_text", !.acquisitions = @ + 1,
                        !.error = ErrorText([name |-> "Error", message |-> acq.error])]
         ELSE [g EXCEPT !.pc = "acquire", !.acquisitions = @ + 1]

\* the second fetch issued whether the acquisition returned or threw
AfterAcquire_FetchAnyway(f, acq) ==
    [f EXCEPT !.pc = "second_fetch", !.acquire = acq.value,
              !.targets = Append(@, acq.value.licensed_url)]

\* licensedFetchText from the settling of the acquisition to the await of
\* the second fetch or of first.text() in the catch
AfterAcquire(f, acq) ==
    IF acq.st = "thrown"
    THEN [f EXCEPT !.pc = "failed_text",
                   !.error = ErrorText([name |-> "AxiosError", message |-> acq.error])]
    ELSE [f EXCEPT !.pc = "second_fetch", !.acquire = acq.value,
                   !.targets = Append(@, acq.value.licensed_url)]

\* a failed second fetch issued once more
AfterSecondFetch_Retry(f, outcome) ==
    IF ~outcome.ok
    THEN [f EXCEPT !.targets = Append(@, f.acquire.licensed_url)]
    ELSE [f EXCEPT !.pc = "second_text", !.second = outcome.response]

\* the catch of the second try left out: a failed second fetch escapes
AfterSecondFetch_NoCatch(f, outcome) ==
    IF ~outcome.ok
    THEN [f EXCEPT !.pc = "raised", !.error = ErrorText(outcome.error)]
    ELSE [f EXCEPT !.pc = "second_text", !.second = outcome.response]

\* licensedFetchText from the settling of the second fetch to the await of
\* second.text() or of first.text() in the catch
AfterSecondFetch(f, outcome) ==
    IF ~outcome.ok
    THEN [f EXCEPT !.pc = "failed_text", !.error = ErrorText(outcome.error)]
    ELSE [f EXCEPT !.pc = "second_text", !.second = outcome.response]

\* licensedFetchText from the settling of the text it awaits to its return
AfterText(f, outcome) ==
    LET text == TextOrEmpty(outcome)
        g == [f EXCEPT !.pc = "done", !.text = outcome,
                       !.read = IF f.pc = "second_text" THEN "second" ELSE "first"]
    IN [g EXCEPT !.result =
          IF f.pc = "success_text" THEN SuccessResult(f, text)
          ELSE IF f.pc = "unrecognized_text" THEN UnrecognizedResult(f, text)
          ELSE IF f.pc = "second_text" THEN FinalResult(f, text)
          ELSE FailedResult(f, text)]

\* ------------------------------------------------------- the fetch, state
InitFetch ==
    /\ config \in [enableTracking : {TRUE}, enableCache : {FALSE},
                   cacheTTL : {DefaultCacheTTL}, apiKey : ApiKeys]
    /\ licenseCache = [u \in URLS |-> NoEntry]
    /\ sessionSummary = ZeroSummary(config.enableTracking)
    /\ now = 0
    /\ inflight = [u \in URLS |-> 0]
    /\ batch = IdleBatch
    /\ last = <<>>
    /\ requests = 0
    /\ inserted = [u \in URLS |-> 0 - 1]
    /\ usage = IdleUsage
    /\ fetcher = NotFetching
    /\ acquirer = NotAcquiring
    /\ tokenEncoder = "null"
    /\ caller = NoCall
    /\ tally = ZeroTally
    /\ handler = NoHandler

\* A handler calls licensedFetchText(url, opts); the handlers await each
\* call before the next (index.ts:576, 625, 702), and a call shares no
\* state with another.
licensedFetchText(url, opts) ==
    /\ fetcher.pc \in {"idle", "done"}
    /\ fetcher' = FetchEnter(url, opts)
    /\ acquirer' = NotAcquiring
    /\ UNCHANGED <<handler, config, sessionSummary, checkVars, usage, asideVars, tally>>

\* The first fetch settles.
FirstFetchSettles(outcome) ==
    /\ fetcher.pc = "first_fetch"
    /\ AnswersTo(outcome, fetcher.url)
    /\ LET acq == AcquireEnter(AcquireParams(fetcher, outcome.response)) IN
       /\ fetcher' = AfterFirstFetch(fetcher, outcome, acq)
       /\ acquirer' = IF outcome.ok /\ Challenged(outcome.response)
                      THEN acq ELSE acquirer
    /\ UNCHANGED <<handler, config, sessionSummary, checkVars, usage, asideVars, tally>>

\* The ledger answers the acquisition request, or the request fails.
AcquireSettles(outcome) ==
    /\ fetcher.pc = "acquire"
    /\ acquirer.st = "awaiting"
    /\ acquirer' = AcquireResume(acquirer, outcome)
    /\ fetcher' = AfterAcquire(fetcher, acquirer')
    /\ UNCHANGED <<handler, config, sessionSummary, checkVars, usage, asideVars, tally>>

\* The second fetch settles.
SecondFetchSettles(outcome) ==
    /\ fetcher.pc = "second_fetch"
    /\ AnswersTo(outcome, fetcher.acquire.licensed_url)
    /\ fetcher' = AfterSecondFetch(fetcher, outcome)
    /\ UNCHANGED <<handler, config, sessionSummary, checkVars, usage, acquirer, asideVars, tally>>

\* The text of the response being read arrives, or reading it fails.
TextSettles(outcome) ==
    /\ fetcher.pc \in {"success_text", "unrecognized_text", "second_text", "failed_text"}
    /\ fetcher' = AfterText(fetcher, outcome)
    /\ UNCHANGED <<handler, config, sessionSummary, checkVars, usage, acquirer, asideVars, tally>>

NextFetch ==
    \/ \E url \in URLS, opts \in FetchOptions : licensedFetchText(url, opts)
    \/ \E outcome \in FirstFetchOutcomes : FirstFetchSettles(outcome)
    \/ \E outcome \in AcquireOutcomes : AcquireSettles(outcome)
    \/ \E outcome \in SecondFetchOutcomes : SecondFetchSettles(outcome)
    \/ \E outcome \in TextOutcomes : TextSettles(outcome)

SpecFetch == InitFetch /\ [][NextFetch]_vars

\* ------------------------------------------------------ the fetch, claims
Returned == fetcher.pc = "done"

\* The first fetch was answered, with this status or another.
FirstAnswered == fetcher.first.kind = "response"

\* The header value names x402, in whatever case.
NamesX402(header) ==
    header.present /\ header.text = <<"v", "1", " ", "X", "4", "0", "2">>

\* The first response is a 402 that advertises x402 in one of the two headers.
FirstIsChallenge ==
    /\ FirstAnswered
    /\ fetcher.first.status = 402
    /\ NamesX402(fetcher.first.paymentRequired) \/ NamesX402(fetcher.first.paymentProtocol)

\* The first response is a 402 that advertises x402 in neither header.
FirstIsUnrecognized ==
    /\ FirstAnswered
    /\ fetcher.first.status = 402
    /\ ~NamesX402(fetcher.first.paymentRequired)
    /\ ~NamesX402(fetcher.first.paymentProtocol)

\* The character budget of the call
Budget ==
    IF fetcher.opts.maxChars.given THEN fetcher.opts.maxChars.value ELSE 200000

\* The body the call read, empty when reading it failed
BodyRead == IF fetcher.text.ok THEN fetcher.text.body ELSE <<>>

\* The result's content_text is the body read from `response`, cut to the
\* budget: a prefix of it, of the budget's length when the body is longer
\* than a budget that is not negative.
CarriesTruncated(response) ==
    /\ fetcher.read = response
    /\ fetcher.result.content.present
    /\ LET text == fetcher.result.content.text IN
       /\ Len(text) <= Len(BodyRead)
       /\ text = SubSeq(BodyRead, 1, Len(text))
       /\ Budget >= 0 =>
             Len(text) = IF Len(BodyRead) > Budget THEN Budget ELSE Len(BodyRead)

\* The challenge fields of the first response, as a result carries them
CarriesChallenge ==
    /\ fetcher.result.x402.present
    /\ fetcher.result.x402.stage = fetcher.first.stage
    /\ fetcher.result.x402.distribution =
          IF fetcher.first.distribution \in {"null", ""}
          THEN fetcher.first.licenseDistribution
          ELSE fetcher.first.distribution

\* --------------------------------------------------------------------- C11
\* C11: acquireLicenseToken without an API key throws the configuration
\* error at once and posts nothing; with a key it posts exactly once per
\* call, never again, returns the ledger's response when the request
\* resolves and throws the request's failure to its caller when it rejects.
C11_Acquire ==
    acquirer.st # "idle" =>
       /\ config.apiKey \in {"undefined", ""} =>
             /\ acquirer.st = "thrown"
             /\ acquirer.error = ConfigError
             /\ acquirer.posts = 0
       /\ config.apiKey = "key" =>
             /\ acquirer.posts = 1
             /\ acquirer.st = "returned" => acquirer.value = AcquireResponse
             /\ acquirer.st = "thrown" =>
                   /\ acquirer.error = "AxiosError"
                   /\ fetcher.error = acquirer.error
       /\ acquirer.params.url = fetcher.url

C11_Witness ==
    /\ Returned
    /\ config.apiKey = ""
    /\ acquirer.st = "thrown"
    /\ acquirer.posts = 0
    /\ fetcher.acquisitions = 1

\* --------------------------------------------------------------------- C14
\* C14: one licensedFetchText call issues at most two content fetches and
\* calls the acquisition at most once, which posts at most once; a failed
\* first fetch is followed by no other request, a failed acquisition by no
\* second fetch, a failed second fetch by no third.
C14_FetchBudget ==
    /\ Len(fetcher.targets) <= 2
    /\ fetcher.acquisitions <= 1
    /\ acquirer.st # "idle" => acquirer.posts <= 1
    /\ (Returned /\ ~FirstAnswered) =>
          Len(fetcher.targets) = 1 /\ fetcher.acquisitions = 0
    /\ (acquirer.st = "thrown") => Len(fetcher.targets) = 1
    /\ Len(fetcher.targets) = 2 => fetcher.acquisitions = 1 /\ acquirer.st = "returned"

C14_Witness ==
    /\ Returned
    /\ Len(fetcher.targets) = 2
    /\ fetcher.acquisitions = 1
    /\ fetcher.second.kind = "none"
    /\ fetcher.result.error = "fetch failed"

\* --------------------------------------------------------------------- C15
\* C15: when the first response has a status other than 402 the call reads
\* its body and returns its status, its content type and the body cut to
\* the budget, both payment flags false, with no acquisition and no second
\* fetch.
C15_Not402 ==
    (FirstAnswered /\ fetcher.first.status # 402) =>
       /\ fetcher.pc \in {"success_text", "done"}
       /\ fetcher.acquisitions = 0
       /\ acquirer.st = "idle"
       /\ Len(fetcher.targets) = 1
       /\ Returned =>
             /\ fetcher.result.status = fetcher.first.status
             /\ fetcher.result.content_type = fetcher.first.contentType
             /\ CarriesTruncated("first")
             /\ ~fetcher.result.payment_attempted
             /\ ~fetcher.result.payment_required
             /\ ~fetcher.result.acquire.present

C15_Witness ==
    /\ Returned
    /\ fetcher.first.status = 403
    /\ fetcher.first.contentType = "text/html"
    /\ fetcher.opts.maxChars = [given |-> TRUE, value |-> 1]
    /\ fetcher.text = [ok |-> TRUE, body |-> <<"a", "b">>]
    /\ fetcher.result.content.text = <<"a">>

\* --------------------------------------------------------------------- C16
\* C16: when the first fetch fails before any response the call returns
\* status 0, both payment flags false, an error, no content_text and the
\* requested URL as final_url, with no acquisition.
C16_FirstFetchFails ==
    (Returned /\ ~FirstAnswered) =>
       /\ fetcher.result.status = 0
       /\ ~fetcher.result.payment_attempted
       /\ ~fetcher.result.payment_required
       /\ fetcher.result.error \in {"fetch failed", "This operation was aborted"}
       /\ ~fetcher.result.content.present
       /\ fetcher.result.final_url = fetcher.url
       /\ fetcher.result.requested_url = fetcher.url
       /\ ~fetcher.result.acquire.present
       /\ fetcher.acquisitions = 0
       /\ acquirer.st = "idle"

C16_Witness ==
    /\ Returned
    /\ ~FirstAnswered
    /\ fetcher.url = "u2"
    /\ fetcher.result.final_url = "u2"
    /\ fetcher.result.error = "This operation was aborted"

\* --------------------------------------------------------------------- C17
\* C17: when the first response is a 402 and neither payment-required nor
\* x-payment-protocol names x402, the call returns status 402 and the first
\* body cut to the budget, payment_required true, payment_attempted false
\* and an error, after one fetch and no acquisition.
C17_Unrecognized402 ==
    FirstIsUnrecognized =>
       /\ fetcher.pc \in {"unrecognized_text", "done"}
       /\ Len(fetcher.targets) = 1
       /\ fetcher.acquisitions = 0
       /\ acquirer.st = "idle"
       /\ Returned =>
             /\ fetcher.result.status = 402
             /\ CarriesTruncated("first")
             /\ fetcher.result.payment_required
             /\ ~fetcher.result.payment_attempted
             /\ fetcher.result.error # "none"
             /\ ~fetcher.result.acquire.present

C17_Witness ==
    /\ Returned
    /\ FirstIsUnrecognized
    /\ fetcher.first.paymentRequired = Header(<<"p", "a", "y">>)
    /\ fetcher.result.payment_required
    /\ fetcher.result.content.text = <<"a", "b">>

\* --------------------------------------------------------------------- C18
\* The call got a 402 advertising x402 and its acquisition returned.
AcquiredAndReturned ==
    /\ Returned
    /\ FirstIsChallenge
    /\ acquirer.st = "returned"

\* C18 as claimed: whenever the first response is a 402 advertising x402 and
\* the acquisition succeeds, the call makes exactly two fetch attempts and
\* its result has payment_attempted true and the acquired licensed URL as
\* final_url.
C18_Original ==
    AcquiredAndReturned =>
       /\ Len(fetcher.targets) = 2
       /\ fetcher.result.payment_attempted
       /\ fetcher.result.final_url = acquirer.value.licensed_url

\* C18, amended: in that case the call makes exactly two fetch attempts,
\* the second of the licensed URL, and its result has payment_attempted
\* true; final_url is the URL the second response reports (the licensed URL
\* when it reports none, another URL after a redirect), and the first
\* response's final URL when the second fetch failed.
C18_TwoFetches ==
    AcquiredAndReturned =>
       /\ Len(fetcher.targets) = 2
       /\ fetcher.targets[2] = acquirer.value.licensed_url
       /\ fetcher.result.payment_attempted
       /\ fetcher.result.final_url =
             IF fetcher.second.kind = "response"
             THEN (IF fetcher.second.url = ""
                   THEN acquirer.value.licensed_url ELSE fetcher.second.url)
             ELSE (IF fetcher.first.url = "" THEN fetcher.url ELSE fetcher.first.url)

C18_Witness ==
    /\ AcquiredAndReturned
    /\ fetcher.second.kind = "response"
    /\ fetcher.second.url = "redirected"
    /\ fetcher.result.final_url = "redirected"
    /\ fetcher.result.acquire.present

\* --------------------------------------------------------------------- C19
\* C19 as claimed: whenever the acquisition succeeds the result carries the
\* acquisition metadata and has the status, the content type and the body
\* of the second fetch, whatever that status; no further acquisition or
\* fetch follows a second 402.
C19_Original ==
    (Returned /\ acquirer.st = "returned") =>
       /\ fetcher.result.acquire = AcquireInfo(acquirer.value)
       /\ fetcher.result.status = fetcher.second.status
       /\ fetcher.result.content_type = fetcher.second.contentType
       /\ CarriesTruncated("second")
       /\ Len(fetcher.targets) = 2
       /\ fetcher.acquisitions = 1

\* --------------------------------------------------------------------- C20
\* C20: when the first response is a 402 advertising x402 and the
\* acquisition fails (the missing key included, which posts nothing), the
\* call returns the first response's status and its body cut to the budget,
\* both payment flags true, the challenge fields, an error and no
\* acquisition metadata, without a second fetch.
C20_AcquisitionFails ==
    (FirstIsChallenge /\ acquirer.st = "thrown") =>
       /\ fetcher.pc \in {"failed_text", "done"}
       /\ Len(fetcher.targets) = 1
       /\ config.apiKey \in {"undefined", ""} => acquirer.posts = 0
       /\ Returned =>
             /\ fetcher.result.status = fetcher.first.status
             /\ fetcher.result.content_type = fetcher.first.contentType
             /\ CarriesTruncated("first")
             /\ fetcher.result.payment_attempted
             /\ fetcher.result.payment_required
             /\ CarriesChallenge
             /\ fetcher.result.error \in {ConfigError, "AxiosError"}
             /\ ~fetcher.result.acquire.present

C20_Witness ==
    /\ Returned
    /\ FirstIsChallenge
    /\ acquirer.st = "thrown"
    /\ config.apiKey = "undefined"
    /\ acquirer.posts = 0
    /\ fetcher.result.error = ConfigError
    /\ fetcher.result.x402.stage = "train"
    /\ fetcher.result.content.text = <<"a">>

\* --------------------------------------------------------------------- C21
\* The places a licensedFetchText call can be at: before or between calls,
\* at one of its awaits, or returned.
FetchPlaces ==
    {"idle", "first_fetch", "acquire", "second_fetch", "success_text",
     "unrecognized_text", "second_text", "failed_text", "done"}

\* The second fetch was issued and failed.
SecondFetchFailed ==
    /\ Len(fetcher.targets) = 2
    /\ fetcher.second.kind = "none"
    /\ fetcher.pc \in {"failed_text", "done"}

\* Reading a body failed.
BodyReadFailed == fetcher.read # "none" /\ ~fetcher.text.ok

\* C21: licensedFetchText never raises to its caller: a call is always at
\* one of its awaits or returned, and a call that met a failure of the first
\* fetch, of the acquisition, of the second fetch or of a body read returns
\* a result of its URL, with an error for the first three and with empty
\* content for the last.
C21_NeverRaises ==
    /\ fetcher.pc \in FetchPlaces
    /\ Returned =>
          /\ fetcher.result # NoResult
          /\ fetcher.result.requested_url = fetcher.url
          /\ ~FirstAnswered => fetcher.result.error # "none"
          /\ acquirer.st = "thrown" => fetcher.result.error # "none"
          /\ SecondFetchFailed => fetcher.result.error # "none"
          /\ BodyReadFailed =>
                /\ fetcher.result.content.present
                /\ fetcher.result.content.text = <<>>
    /\ (~Returned /\ fetcher.pc # "idle") =>
          /\ SecondFetchFailed => fetcher.pc = "failed_text"
          /\ acquirer.st = "thrown" => fetcher.pc = "failed_text"

C21_Witness ==
    /\ Returned
    /\ SecondFetchFailed
    /\ BodyReadFailed
    /\ fetcher.result.error = "This operation was aborted"
    /\ fetcher.result.content.text = <<>>

\* --------------------------------------------------------------------- C22
\* C22: whenever a returned result carries content, the budget is not
\* negative and the body was read, content_text is the first min(N, budget)
\* characters of the body of length N: character for character the body's
\* beginning, exactly budget characters of a longer body with nothing
\* appended, the whole body when it is no longer than the budget.
C22_Truncation ==
    (Returned /\ fetcher.result.content.present /\ Budget >= 0 /\ fetcher.text.ok) =>
       LET body == fetcher.text.body
           text == fetcher.result.content.text
       IN /\ Len(text) = (IF Len(body) <= Budget THEN Len(body) ELSE Budget)
          /\ \A i \in 1..Len(text) : text[i] = body[i]
          /\ Len(body) > Budget => Len(text) = Budget
          /\ Len(body) <= Budget => text = body

C22_Witness ==
    /\ Returned
    /\ fetcher.read = "second"
    /\ fetcher.opts.maxChars = [given |-> TRUE, value |-> 1]
    /\ fetcher.text = [ok |-> TRUE, body |-> <<"a", "b">>]
    /\ fetcher.result.content = Content(<<"a">>)

\* ============================================================ the session
\* The license checks and the usage logs of one service, interleaved: every
\* invocation of either kind runs between the awaits of the others, on the
\* one sessionSummary.  MaxOps bounds the ledger requests of both kinds.
InitSession ==
    /\ config \in [enableTracking : BOOLEAN, enableCache : BOOLEAN,
                   cacheTTL : {DefaultCacheTTL}, apiKey : {"", "key"}]
    /\ licenseCache = [u \in URLS |-> NoEntry]
    /\ sessionSummary = ZeroSummary(config.enableTracking)
    /\ now = 0
    /\ inflight = [u \in URLS |-> 0]
    /\ batch = IdleBatch
    /\ last = <<>>
    /\ requests = 0
    /\ inserted = [u \in URLS |-> 0 - 1]
    /\ usage = IdleUsage
    /\ fetcher = IdleFetcher
    /\ acquirer = IdleAcquirer
    /\ tokenEncoder = "null"
    /\ caller = NoCall
    /\ tally = ZeroTally
    /\ handler = NoHandler

NextSession ==
    /\ \/ \E url \in URLS, read \in LedgerOutcomes : LookupSettles(url, read)
       \/ \E urls \in SeqsUpTo(URLS, MaxBatchLen) : checkLicenseBatch(urls)
       \/ BatchReturn
       \/ \E tokens \in 0..MaxTokens : logUsage(tokens)
       \/ \E i \in 1..MaxUsageCalls, resolved \in BOOLEAN : UsageLogSettles(i, resolved)
       \/ resetSession
       \/ resetSessionUsage
       \/ cleanup
    /\ requests' + usage'.calls <= MaxOps

SpecSession == InitSession /\ [][NextSession]_vars

\* No invocation of checkLicense or logUsage awaits the ledger.
AllCompleted ==
    /\ \A u \in URLS : inflight[u] = 0
    /\ usage.pending = <<>>

\* --------------------------------------------------------------------- C23
\* C23: across every step of every operation other than resetSession, each
\* of total_urls, licensed_content, unlicensed_content, denied_content,
\* total_tokens and errors is at least what it was.
C23_NonDecreasing ==
    [][\/ resetSession
       \/ resetSessionUsage
       \/ \A c \in Counters : sessionSummary'[c] >= sessionSummary[c]]_vars

C23_Witness ==
    /\ AllCompleted
    /\ sessionSummary.total_urls = 1
    /\ sessionSummary.denied_content = 1
    /\ sessionSummary.total_tokens = 2
    /\ tally.records = 1

\* --------------------------------------------------------------------- C24
\* C24: a resetSession step leaves all six counters at zero and
\* tracking_enabled equal to the configured tracking flag, and changes
\* neither the license cache nor the configuration.
C24_Reset ==
    [][(resetSession \/ resetSessionUsage) =>
          /\ \A c \in Counters : sessionSummary'[c] = 0
          /\ sessionSummary'.tracking_enabled = config.enableTracking
          /\ licenseCache' = licenseCache
          /\ config' = config]_vars

C24_Witness ==
    /\ AllCompleted
    /\ requests = 2
    /\ \A u \in URLS : licenseCache[u].present
    /\ sessionSummary = [total_urls |-> 0, licensed_content |-> 0,
                         unlicensed_content |-> 0, denied_content |-> 0,
                         total_tokens |-> 0, tracking_enabled |-> TRUE,
                         errors |-> 0]

\* --------------------------------------------------------------------- C28
\* C28: once every operation has completed, total_urls is the number of
\* checks that ended with a selected ledger record since the last reset,
\* errors the number of lookups and usage posts that failed since then, and
\* total_tokens the sum of the tokens of the usage posts that succeeded
\* since then, however the operations were interleaved.
C28_NoLostUpdate ==
    AllCompleted =>
       /\ sessionSummary.total_urls = tally.records
       /\ sessionSummary.errors = tally.failures
       /\ sessionSummary.total_tokens = tally.tokens

C28_Witness ==
    /\ AllCompleted
    /\ usage.posts = 2
    /\ tally.tokens = 3
    /\ sessionSummary.total_tokens = 3

\* --------------------------------------------------------------------- C30
\* The places of a call as the states of the machine: INIT is "idle" (and
\* "done", from which the next call starts), FIRST_FETCH "first_fetch",
\* ACQUIRE "acquire", SECOND_FETCH "second_fetch"; TERMINAL_SUCCESS,
\* TERMINAL_402_UNRECOGNIZED, TERMINAL_FINAL and TERMINAL_PAYMENT_FAILED
\* are the reads of the body their results carry, "success_text",
\* "unrecognized_text", "second_text" and "failed_text", each followed by
\* the return.  CHALLENGE is passed through within one step.
ClaimedEdges ==
    {<<"idle", "first_fetch">>, <<"done", "first_fetch">>,
     <<"first_fetch", "success_text">>, <<"first_fetch", "unrecognized_text">>,
     <<"first_fetch", "acquire">>, <<"first_fetch", "failed_text">>,
     <<"acquire", "failed_text">>, <<"acquire", "second_fetch">>,
     <<"second_fetch", "second_text">>,
     <<"success_text", "done">>, <<"unrecognized_text", "done">>,
     <<"second_text", "done">>, <<"failed_text", "done">>}

\* What the machine leaves out: the first fetch failing before any response,
\* and the second fetch failing.
FailureEdges ==
    {<<"first_fetch", "done">>, <<"second_fetch", "failed_text">>}

\* An acquisition is attempted only after a 402 that advertised x402; a
\* second fetch is issued only after the acquisition returned, to the
\* licensed URL it returned; a returned call takes no step but the start of
\* the next call.
FetchOrder ==
    /\ fetcher'.acquisitions > fetcher.acquisitions =>
          /\ fetcher'.first.status = 402
          /\ NamesX402(fetcher'.first.paymentRequired) \/ NamesX402(fetcher'.first.paymentProtocol)
    /\ Len(fetcher'.targets) > Len(fetcher.targets) /\ Len(fetcher'.targets) > 1 =>
          /\ acquirer'.st = "returned"
          /\ fetcher.pc = "acquire"
          /\ fetcher'.targets[Len(fetcher'.targets)] = acquirer'.value.licensed_url
    /\ fetcher.pc = "done" /\ fetcher' # fetcher =>
          /\ fetcher'.pc = "first_fetch"
          /\ fetcher'.result = NoResult
          /\ fetcher'.acquisitions = 0
          /\ Len(fetcher'.targets) = 1

\* C30 as claimed: a call takes only the transitions of the machine, in the
\* order the claim states.
C30_Original ==
    [][/\ fetcher'.pc # fetcher.pc => <<fetcher.pc, fetcher'.pc>> \in ClaimedEdges
       /\ FetchOrder]_vars

\* C30, amended: a call takes only the transitions of the machine and two
\* more, FIRST_FETCH to a terminal result of status 0 when the first fetch
\* fails before any response, and SECOND_FETCH to the result of a failed
\* payment when the second fetch fails; the acquisition is attempted only
\* after a 402 that advertised x402, the second fetch issued only after a
\* successful acquisition and to its licensed URL, and no step follows a
\* terminal result.
C30_Transitions ==
    [][/\ fetcher'.pc # fetcher.pc =>
             <<fetcher.pc, fetcher'.pc>> \in ClaimedEdges \cup FailureEdges
       /\ FetchOrder]_vars

C30_Witness ==
    /\ Returned
    /\ FirstIsChallenge
    /\ acquirer.st = "returned"
    /\ fetcher.targets = <<"u2", "licensed">>
    /\ fetcher.read = "second"
    /\ fetcher.result.status = 402

\* ======================================================== the other calls
\* longest content handed to estimateTokens
MaxContentLen == 5

\* What tokenEncoder.encode(content) does on a live encoder: it returns one
\* token for the whole content or one for each character, or it throws (as
\* tiktoken does on a special token in the text).
Encodings(len) ==
    {[ok |-> TRUE, tokens |-> 1], [ok |-> TRUE, tokens |-> len],
     [ok |-> FALSE, tokens |-> 0]}

\* Math.floor in the place of Math.ceil
RoughEstimate_Floor(len) == len \div 4

\* Math.ceil(content.length / 4)
RoughEstimate(len) == (len + 3) \div 4

\* estimateTokens(content), content of length len: 0 for the empty content,
\* the encoder's count when there is an encoder and encode returns, the
\* rough estimate when there is none or encode throws (a freed encoder
\* throws)
EstimateTokens(len, encoder, encoded) ==
    IF len = 0 THEN 0
    ELSE IF encoder = "encoder" /\ encoded.ok THEN encoded.tokens
    ELSE RoughEstimate(len)

\* return this.sessionSummary: the caller handed the service's own object
SnapshotOf_Reference(summary) == [alias |-> TRUE, value |-> summary]

\* return { ...this.sessionSummary }: a copy, its fields numbers and a boolean
SnapshotOf(summary) == [alias |-> FALSE, value |-> summary]

\* A caller invokes estimateTokens(content).
estimateTokens(len, encoded) ==
    /\ caller' = [op |-> "estimateTokens", len |-> len, encoded |-> encoded,
                  encoder |-> tokenEncoder,
                  value |-> EstimateTokens(len, tokenEncoder, encoded)]
    /\ UNCHANGED <<handler, config, sessionSummary, checkVars, usage, fetchVars, tokenEncoder, tally>>

\* A caller invokes getSessionSummary().
getSessionSummary ==
    /\ caller' = [op |-> "getSessionSummary", snapshot |-> SnapshotOf(sessionSummary),
                  written |-> FALSE]
    /\ UNCHANGED <<handler, config, sessionSummary, checkVars, usage, fetchVars, tokenEncoder, tally>>

\* The caller adds one to a field of the snapshot it was returned: the
\* write lands in the caller's object, which is the service's only if the
\* service returned its own.
WriteSnapshot(field) ==
    /\ caller.op = "getSessionSummary"
    /\ ~caller.written
    /\ IF caller.snapshot.alias
       THEN /\ sessionSummary' = [sessionSummary EXCEPT ![field] = @ + 1]
            /\ caller' = [caller EXCEPT !.written = TRUE]
       ELSE /\ caller' = [caller EXCEPT !.snapshot.value[field] = @ + 1,
                                        !.written = TRUE]
            /\ UNCHANGED sessionSummary
    /\ UNCHANGED <<handler, config, checkVars, usage, fetchVars, tokenEncoder, tally>>

\* The fetches of this specification: one URL, the default options, and
\* responses without a final URL, a content type, a stage or a distribution,
\* their bodies empty.
PlainFetch ==
    /\ fetcher.url \in {"", "u1"}
    /\ fetcher.pc # "idle" =>
          fetcher.opts = [maxChars |-> [given |-> FALSE, value |-> 0],
                          defaults |-> [stage |-> "undefined", distribution |-> "undefined"]]
    /\ \A r \in {fetcher.first, fetcher.second} :
          /\ r.url = ""
          /\ r.contentType = "null"
          /\ r.stage = "null"
          /\ r.distribution = "null"
          /\ r.licenseDistribution = "null"
    /\ fetcher.text.body = <<>>

\* The service between its license checks: usage logs, payment-aware
\* fetches with their acquisitions, estimateTokens, getSessionSummary and
\* what the caller does with the snapshot, cleanup and resetSession.
InitFrame ==
    /\ config \in [enableTracking : {TRUE}, enableCache : {FALSE},
                   cacheTTL : {DefaultCacheTTL}, apiKey : {"", "key"}]
    /\ licenseCache = [u \in URLS |-> NoEntry]
    /\ sessionSummary = ZeroSummary(config.enableTracking)
    /\ now = 0
    /\ inflight = [u \in URLS |-> 0]
    /\ batch = IdleBatch
    /\ last = <<>>
    /\ requests = 0
    /\ inserted = [u \in URLS |-> 0 - 1]
    /\ usage = IdleUsage
    /\ fetcher = NotFetching
    /\ acquirer = NotAcquiring
    /\ tokenEncoder \in {"encoder", "null"}
    /\ caller = NoCall
    /\ tally = ZeroTally
    /\ handler = NoHandler

NextFrame ==
    \/ NextFetch /\ PlainFetch'
    \/ NextUsage /\ usage'.calls <= 1
    \/ \E len \in 0..MaxContentLen : \E encoded \in Encodings(len) : estimateTokens(len, encoded)
    \/ getSessionSummary
    \/ \E field \in Counters : WriteSnapshot(field)
    \/ cleanup

SpecFrame == InitFrame /\ [][NextFrame]_vars

\* --------------------------------------------------------------------- C27
\* What the deadlines bound.  fetchWithTimeout aborts a fetch that has not
\* resolved when its timer fires, and clears the timer once the fetch has
\* resolved, which is when the response's headers have arrived; the
\* acquisition's POST carries axios's timeout.  So each of the two fetches
\* and the acquisition settles, and weak fairness holds of these three.
\* The body is read after the timer was cleared and no deadline covers it:
\* nothing makes TextSettles happen.
\* The calls of this specification pass no option of their own.
DefaultOptions ==
    fetcher.pc # "idle" =>
       fetcher.opts = [maxChars |-> [given |-> FALSE, value |-> 0],
                       defaults |-> [stage |-> "undefined", distribution |-> "undefined"]]

FetchStep(settles) == settles /\ DefaultOptions'

FirstFetchAnswers == \E outcome \in FirstFetchOutcomes : FirstFetchSettles(outcome)
AcquireAnswers == \E outcome \in AcquireOutcomes : AcquireSettles(outcome)
SecondFetchAnswers == \E outcome \in SecondFetchOutcomes : SecondFetchSettles(outcome)

SpecFetchFair ==
    /\ InitFetch
    /\ [][FetchStep(NextFetch)]_vars
    /\ WF_vars(FetchStep(FirstFetchAnswers))
    /\ WF_vars(FetchStep(AcquireAnswers))
    /\ WF_vars(FetchStep(SecondFetchAnswers))

\* C27 as claimed: every licensedFetchText call that was started eventually
\* returns a result, whatever the remote server does.
C27_Original == (fetcher.pc = "first_fetch") ~> Returned

\* --------------------------------------------------------------------- C25
\* C25: a step changes a session counter only if it is a run of
\* checkLicense, of logUsage or of resetSession; every step in which
\* licensedFetchText or acquireLicenseToken runs, estimateTokens or
\* getSessionSummary returns, the caller writes to the snapshot it was
\* returned, or cleanup runs leaves the summary as it was.
C25_Frame ==
    [][/\ sessionSummary' # sessionSummary =>
             \/ \E url \in URLS, read \in LedgerOutcomes : LookupSettles(url, read)
             \/ \E i \in 1..MaxUsageCalls, resolved \in BOOLEAN : UsageLogSettles(i, resolved)
             \/ resetSession
             \/ resetSessionUsage
       /\ (\/ fetcher' # fetcher
           \/ acquirer' # acquirer
           \/ caller' # caller
           \/ tokenEncoder' # tokenEncoder
           \/ cleanup) => sessionSummary' = sessionSummary]_vars

C25_Witness ==
    /\ Returned
    /\ acquirer.st = "thrown"
    /\ tokenEncoder = "freed"
    /\ caller.op = "getSessionSummary"
    /\ caller.written
    /\ sessionSummary.total_tokens = 2
    /\ caller.snapshot.value.total_tokens = 3

\* ======================================================= the tool handlers
\* handleSearch, handleExtract and handleCrawl of TavilyClient.  What the
\* service and licensedFetchText return to a handler is taken from the sets
\* below: the handlers read a license's license_found, action and
\* license_version_id, and a fetch result's status, content_text, acquire
\* and error.
\* most results of one upstream response, most URLs of one extract call
MaxResults == 2

Tools == {"search", "extract", "crawl"}

\* result.content || result.raw_content || "" (raw_content alone in a crawl)
Contents == {"", "text"}

\* An upstream result
UpstreamResults == [url : URLS, content : Contents]

\* What checkLicenseBatch maps a URL to: a found license that allows or
\* denies, both with a license_version_id, no license found, or the
\* degraded result of a failed lookup.
HandlerLicenses ==
    {[license_found |-> TRUE, action |-> "allow", tracked |-> TRUE, error |-> FALSE],
     [license_found |-> TRUE, action |-> "deny", tracked |-> TRUE, error |-> FALSE],
     [license_found |-> FALSE, action |-> "unknown", tracked |-> FALSE, error |-> FALSE],
     [license_found |-> FALSE, action |-> "unknown", tracked |-> FALSE, error |-> TRUE]}

\* What licensedFetchText returns: the result of a failed first fetch, of a
\* response that is not a 402 (with a body or with none), of a 402 that was
\* not paid, and of a second fetch after an acquisition.
HandlerFetched ==
    {[status |-> 0, content |-> "", error |-> TRUE, acquire |-> FALSE],
     [status |-> 200, content |-> "text", error |-> FALSE, acquire |-> FALSE],
     [status |-> 200, content |-> "", error |-> FALSE, acquire |-> FALSE],
     [status |-> 401, content |-> "text", error |-> FALSE, acquire |-> FALSE],
     [status |-> 403, content |-> "text", error |-> FALSE, acquire |-> FALSE],
     [status |-> 402, content |-> "text", error |-> TRUE, acquire |-> FALSE],
     [status |-> 200, content |-> "text", error |-> FALSE, acquire |-> TRUE]}

\* licenses.get(url) and fetchedByUrl[url], undefined when there is none
Undefined == [defined |-> FALSE]
Defined(value) == [defined |-> TRUE, value |-> value]
Get(map, url) == IF url \in DOMAIN map THEN Defined(map[url]) ELSE Undefined

\* One line of a tool's text output
Line(kind, text, status) == [kind |-> kind, text |-> text, status |-> status]

\* formatFetchedResult(fetched)
formatFetchedResult(fetched) ==
    IF ~fetched.defined THEN <<>>
    ELSE <<Line("fetched_status", "", fetched.value.status)>>
         \o (IF fetched.value.content # ""
             THEN <<Line("fetched_content", fetched.value.content, 0)>> ELSE <<>>)
         \o (IF fetched.value.acquire THEN <<Line("x402", "", 0)>> ELSE <<>>)
         \o (IF fetched.value.error THEN <<Line("fetch_error", "", 0)>> ELSE <<>>)

\* formatLicenseInfo(license, tokens): Unknown when no license was found,
\* the action in upper case when one was
formatLicenseInfo(license) ==
    IF ~license.license_found
    THEN Line("license", "Unknown (content used best-effort)", 0)
    ELSE Line("license", IF license.action = "allow" THEN "ALLOW"
                         ELSE IF license.action = "deny" THEN "DENY"
                         ELSE "UNKNOWN", 0)

\* The lines formatSearchResults, formatExtractResults and
\* formatCrawlResults write for one result: the content line, the lines of
\* the fetch when there was one, the license line when there is a license.
formatResult(result, license, fetched) ==
    [url |-> result.url,
     lines |-> <<Line("content", result.content, 0)>>
               \o formatFetchedResult(fetched)
               \o (IF license.defined THEN <<formatLicenseInfo(license.value)>> ELSE <<>>)]

\* buildUsageLicense(url, license, fetched): the ledger's license when it
\* has a license_version_id, else an x402 license made of the acquisition
\* when the fetch made one, else the license as it is
buildUsageLicense(license, fetched) ==
    IF license.defined /\ license.value.tracked THEN "ledger"
    ELSE IF fetched.acquire THEN "x402"
    ELSE IF license.defined THEN "untracked"
    ELSE "undefined"

\* logUsageFromContent up to its await: no call of logUsage without a
\* license or for content estimateTokens counts 0 tokens for, which is the
\* empty content
CallsLogUsage(license, content) == license # "undefined" /\ content # ""

\* A handler invocation between its call and its first await
NewHandler(tool, fetch, urls) ==
    [pc |-> IF tool = "extract" THEN "batch" ELSE "upstream",
     tool |-> tool, fetch |-> fetch, urls |-> urls, results |-> <<>>,
     upstream |-> "none", licenses |-> EmptyMap, i |-> 1,
     fetchedByUrl |-> EmptyMap, attempts |-> <<>>, logs |-> <<>>,
     output |-> <<>>]

\* return { content: [{ type: "text", text: this.format...Results(...) }] }
Finish(h) ==
    [h EXCEPT !.pc = "returned",
              !.output = [j \in 1..Len(h.results) |->
                             formatResult(h.results[j],
                                          Get(h.licenses, h.results[j].url),
                                          IF h.fetch
                                          THEN Get(h.fetchedByUrl, h.results[j].url)
                                          ELSE Undefined)]]

\* The loop of a handler from its i-th item to its next await or to the
\* return: with fetch it awaits licensedFetchText for each URL in turn,
\* without it awaits logUsage for each result that has a license and
\* content.
RECURSIVE Loop(_)
Loop(h) ==
    IF h.i > (IF h.fetch THEN Len(h.urls) ELSE Len(h.results))
    THEN Finish(h)
    ELSE IF h.fetch
    THEN [h EXCEPT !.pc = "fetch", !.attempts = Append(@, h.urls[h.i])]
    ELSE LET result == h.results[h.i]
             license == Get(h.licenses, result.url)
         IN IF license.defined /\ CallsLogUsage("license", result.content)
            THEN [h EXCEPT !.pc = "log",
                           !.logs = Append(@, [url |-> result.url,
                                               license |-> IF license.value.tracked
                                                           THEN "ledger" ELSE "untracked"])]
            ELSE Loop([h EXCEPT !.i = @ + 1])

\* The end of an iteration of the fetch loop: handleExtract pushes the
\* result it makes of the fetched content.
EndIteration(h) ==
    LET url == h.urls[h.i]
        made == [url |-> url, content |-> h.fetchedByUrl[url].content]
    IN Loop([h EXCEPT !.i = @ + 1,
                      !.results = IF h.tool = "extract" THEN Append(@, made) ELSE @])

\* a fetch that ended with an error ends the loop
AfterFetch_StopOnError(h, fetched) ==
    LET url == h.urls[h.i]
        g == [h EXCEPT !.fetchedByUrl = MapSet(@, url, fetched)]
        usageLicense == buildUsageLicense(Get(h.licenses, url), fetched)
    IN IF fetched.error
       THEN Finish(g)
       ELSE IF fetched.content # "" /\ fetched.status >= 200 /\ fetched.status < 300
               /\ CallsLogUsage(usageLicense, fetched.content)
       THEN [g EXCEPT !.pc = "log",
                      !.logs = Append(@, [url |-> url, license |-> usageLicense])]
       ELSE EndIteration(g)

\* the test of the status missing: content of any response is logged
AfterFetch_AnyStatus(h, fetched) ==
    LET url == h.urls[h.i]
        g == [h EXCEPT !.fetchedByUrl = MapSet(@, url, fetched)]
        usageLicense == buildUsageLicense(Get(h.licenses, url), fetched)
    IN IF fetched.content # "" /\ CallsLogUsage(usageLicense, fetched.content)
       THEN [g EXCEPT !.pc = "log",
                      !.logs = Append(@, [url |-> url, license |-> usageLicense])]
       ELSE EndIteration(g)

\* The fetch loop from the return of licensedFetchText on: the result is
\* stored under its URL, and content of a 2xx result is logged.
AfterFetch(h, fetched) ==
    LET url == h.urls[h.i]
        g == [h EXCEPT !.fetchedByUrl = MapSet(@, url, fetched)]
        usageLicense == buildUsageLicense(Get(h.licenses, url), fetched)
    IN IF fetched.content # "" /\ fetched.status >= 200 /\ fetched.status < 300
          /\ CallsLogUsage(usageLicense, fetched.content)
       THEN [g EXCEPT !.pc = "log",
                      !.logs = Append(@, [url |-> url, license |-> usageLicense])]
       ELSE EndIteration(g)

\* The loops from the return of logUsage on; what it returned is dropped.
AfterLog(h) ==
    IF h.fetch THEN EndIteration(h) ELSE Loop([h EXCEPT !.i = @ + 1])

\* ------------------------------------------------------ handlers, state
InitHandler ==
    /\ config \in [enableTracking : {TRUE}, enableCache : {FALSE},
                   cacheTTL : {DefaultCacheTTL}, apiKey : {"key"}]
    /\ licenseCache = [u \in URLS |-> NoEntry]
    /\ sessionSummary = ZeroSummary(config.enableTracking)
    /\ now = 0
    /\ inflight = [u \in URLS |-> 0]
    /\ batch = IdleBatch
    /\ last = <<>>
    /\ requests = 0
    /\ inserted = [u \in URLS |-> 0 - 1]
    /\ usage = IdleUsage
    /\ fetcher = IdleFetcher
    /\ acquirer = IdleAcquirer
    /\ tokenEncoder = "null"
    /\ caller = NoCall
    /\ tally = ZeroTally
    /\ handler = NoHandler

\* the variables of the service and of the fetch
serviceVars ==
    <<config, sessionSummary, checkVars, usage, fetchVars, asideVars, tally>>

\* A tool is called: handleExtract has its URLs in args.urls and awaits
\* checkLicenseBatch, the others await the upstream API.
handle(tool, fetch, urls) ==
    /\ handler.pc \in {"idle", "returned", "raised"}
    /\ tool # "extract" => urls = <<>>
    /\ handler' = NewHandler(tool, fetch, urls)
    /\ UNCHANGED serviceVars

\* A handler from the answer of the upstream API on: search and crawl take
\* their URLs from the results and call checkLicenseBatch, extract (without
\* fetch) goes on to log them.
AfterUpstream(h, results) ==
    IF h.tool = "extract"
    THEN Loop([h EXCEPT !.results = results, !.upstream = "answered"])
    ELSE [h EXCEPT !.pc = "batch", !.results = results,
                   !.upstream = "answered",
                   !.urls = [j \in 1..Len(results) |-> results[j].url]]

\* The upstream API answers.
UpstreamAnswers(results) ==
    /\ handler.pc = "upstream"
    /\ handler' = AfterUpstream(handler, results)
    /\ UNCHANGED serviceVars

\* The upstream request fails and the handler throws what it threw.
UpstreamFails ==
    /\ handler.pc = "upstream"
    /\ handler' = [handler EXCEPT !.pc = "raised", !.upstream = "failed"]
    /\ UNCHANGED serviceVars

\* A handler from the return of checkLicenseBatch on: extract without
\* fetch asks the upstream API, the others enter their loop.
AfterBatch(h, licenses) ==
    LET g == [h EXCEPT !.licenses = licenses] IN
    IF g.tool = "extract" /\ ~g.fetch
    THEN [g EXCEPT !.pc = "upstream"]
    ELSE Loop(g)

\* checkLicenseBatch returns its map, an entry for every URL it was given.
BatchReturns(licenses) ==
    /\ handler.pc = "batch"
    /\ DOMAIN licenses = Range(handler.urls)
    /\ handler' = AfterBatch(handler, licenses)
    /\ UNCHANGED serviceVars

\* licensedFetchText returns its result for the URL of the iteration.
FetchReturns(fetched) ==
    /\ handler.pc = "fetch"
    /\ handler' = AfterFetch(handler, fetched)
    /\ UNCHANGED serviceVars

\* logUsage returns.
UsageLogReturns ==
    /\ handler.pc = "log"
    /\ handler' = AfterLog(handler)
    /\ UNCHANGED serviceVars

\* The maps checkLicenseBatch can return for the URLs it was given
LicenseMaps == UNION {[S -> HandlerLicenses] : S \in SUBSET URLS}

NextHandler ==
    \/ \E tool \in Tools, fetch \in BOOLEAN, urls \in SeqsUpTo(URLS, MaxResults) :
          handle(tool, fetch, urls)
    \/ \E results \in SeqsUpTo(UpstreamResults, MaxResults) : UpstreamAnswers(results)
    \/ UpstreamFails
    \/ \E licenses \in LicenseMaps : BatchReturns(licenses)
    \/ \E fetched \in HandlerFetched : FetchReturns(fetched)
    \/ UsageLogReturns

SpecHandler == InitHandler /\ [][NextHandler]_vars

\* ------------------------------------------------------------------ C26
\* What the handler had of a result when it wrote its entry
LicenseOf(j) == Get(handler.licenses, handler.output[j].url)
FetchedOf(j) ==
    IF handler.fetch THEN Get(handler.fetchedByUrl, handler.output[j].url)
    ELSE Undefined

\* the license check said deny, or the direct fetch ended 401, 403 or 402
Restricted(j) ==
    \/ LicenseOf(j).defined /\ LicenseOf(j).value.license_found
       /\ LicenseOf(j).value.action = "deny"
    \/ FetchedOf(j).defined /\ FetchedOf(j).value.status \in {401, 403, 402}

LinesOf(j) == Range(handler.output[j].lines)

\* C26: in the output of search, extract and crawl, a result whose license
\* check said deny or whose direct fetch ended with status 401, 403 or 402
\* has an 'unavailable' reason and none of its content, and a result of
\* unknown license has its content.
C26_Original ==
    handler.pc = "returned" =>
        \A j \in DOMAIN handler.output :
            /\ Restricted(j) =>
                  /\ \E line \in LinesOf(j) : line.kind = "unavailable"
                  /\ \A line \in LinesOf(j) :
                        line.kind \in {"content", "fetched_content"} => line.text = ""
            /\ (~Restricted(j) /\ LicenseOf(j).defined
                /\ ~LicenseOf(j).value.license_found) =>
                  \E line \in LinesOf(j) :
                      line.kind = "content" /\ line.text = handler.results[j].content

\* ------------------------------------------------------------------ C29
\* The entry of the output reports the fetch the handler stored for its URL
ReportsFetch(j) ==
    LET fetched == handler.fetchedByUrl[handler.output[j].url] IN
    /\ \E line \in LinesOf(j) :
          line.kind = "fetched_status" /\ line.status = fetched.status
    /\ fetched.error <=> \E line \in LinesOf(j) : line.kind = "fetch_error"

\* C29: a handler stops only when the upstream request fails; while it
\* fetches it has attempted every URL up to the one it is at, whatever the
\* earlier fetches returned; and when it returns, its output has an entry
\* for every result, in order, with license Unknown where the lookup
\* failed, and with fetch one attempt per URL and in every entry the
\* outcome of the fetch of its URL.
C29_NoUrlSkipped ==
    /\ handler.pc = "raised" => handler.upstream = "failed"
    /\ (handler.pc \in {"fetch", "log"} /\ handler.fetch) =>
          handler.attempts = SubSeq(handler.urls, 1, handler.i)
    /\ handler.pc = "returned" =>
          /\ Len(handler.output) = Len(handler.results)
          /\ \A j \in DOMAIN handler.output :
                /\ handler.output[j].url = handler.results[j].url
                /\ (LicenseOf(j).defined /\ LicenseOf(j).value.error) =>
                      \E line \in LinesOf(j) :
                          /\ line.kind = "license"
                          /\ line.text = "Unknown (content used best-effort)"
          /\ handler.tool # "extract" => handler.upstream = "answered"
          /\ handler.fetch =>
                /\ handler.attempts = handler.urls
                /\ Range(handler.urls) \subseteq DOMAIN handler.fetchedByUrl
                /\ {handler.output[j].url : j \in DOMAIN handler.output}
                      = Range(handler.urls)
                /\ \A j \in DOMAIN handler.output : ReportsFetch(j)

\* A fetch of two URLs whose ledger was unreachable has returned: the
\* first fetch failed, the second brought content that was logged.
C29_Witness ==
    /\ handler.pc = "returned"
    /\ handler.fetch
    /\ Len(handler.urls) = 2
    /\ handler.urls[1] # handler.urls[2]
    /\ handler.licenses[handler.urls[1]].error
    /\ handler.fetchedByUrl[handler.urls[1]].error
    /\ handler.fetchedByUrl[handler.urls[1]].status = 0
    /\ handler.fetchedByUrl[handler.urls[2]].status = 200
    /\ handler.logs # <<>>

\* =============================================== the handlers on the service
\* A handler with the license checks it starts: checkLicenseBatch is called
\* in the step in which the handler reaches it, its lookups settle one by
\* one, and the handler goes on when Promise.allSettled has resolved.

\* What the handlers read of a LicenseInfo; a license made of a ledger
\* record has the record's id as its license_version_id.
AsHandlerLicense(license) ==
    [license_found |-> license.license_found, action |-> license.action,
     tracked |-> license.license_found, error |-> license.error # "none"]

\* what a call of checkLicenseBatch leaves alone in the service
dispatchFrame ==
    <<config, licenseCache, sessionSummary, now, inserted, usage, fetchVars,
      asideVars, tally>>

\* The call of checkLicenseBatch(urls) by a handler that has reached it
CallsBatch(h) ==
    IF h.pc = "batch"
    THEN DispatchBatch(h.urls) /\ UNCHANGED dispatchFrame
    ELSE UNCHANGED serviceVars

InitPipeline ==
    /\ config \in [enableTracking : {TRUE}, enableCache : BOOLEAN,
                   cacheTTL : {DefaultCacheTTL}, apiKey : {"key"}]
    /\ licenseCache = [u \in URLS |-> NoEntry]
    /\ sessionSummary = ZeroSummary(config.enableTracking)
    /\ now = 0
    /\ inflight = [u \in URLS |-> 0]
    /\ batch = IdleBatch
    /\ last = <<>>
    /\ requests = 0
    /\ inserted = [u \in URLS |-> 0 - 1]
    /\ usage = IdleUsage
    /\ fetcher = IdleFetcher
    /\ acquirer = IdleAcquirer
    /\ tokenEncoder = "null"
    /\ caller = NoCall
    /\ tally = ZeroTally
    /\ handler = NoHandler

\* A tool is called; handleExtract calls checkLicenseBatch at once.
HandlerCalled(tool, fetch, urls) ==
    /\ handler.pc \in {"idle", "returned", "raised"}
    /\ tool # "extract" => urls = <<>>
    /\ handler' = NewHandler(tool, fetch, urls)
    /\ CallsBatch(handler')

\* The upstream API answers; handleSearch and handleCrawl call
\* checkLicenseBatch with the URLs of the results.
UpstreamAnswered(results) ==
    /\ handler.pc = "upstream"
    /\ handler' = AfterUpstream(handler, results)
    /\ CallsBatch(handler')

\* Promise.allSettled resolves (or the list was empty), checkLicenseBatch
\* returns its map and the handler goes on with it.
BatchReturned ==
    /\ handler.pc = "batch"
    /\ \/ ResolveBatch
       \/ batch.st = "returned" /\ UNCHANGED <<batch, last>>
    /\ handler' = AfterBatch(handler,
                             [u \in DOMAIN batch.results |->
                                 AsHandlerLicense(batch.results[u])])
    /\ UNCHANGED <<config, licenseCache, sessionSummary, now, inflight, requests,
                   inserted, usage, fetchVars, asideVars, tally>>

\* the results of fetches that met no 402
UnpaidFetched == {f \in HandlerFetched : f.status \in {0, 200} /\ ~f.acquire}

NextPipeline ==
    \/ \E tool \in Tools, fetch \in BOOLEAN, urls \in SeqsUpTo(URLS, MaxResults) :
          HandlerCalled(tool, fetch, urls)
    \/ \E results \in SeqsUpTo(UpstreamResults, MaxResults) : UpstreamAnswered(results)
    \/ UpstreamFails
    \/ \E url \in URLS, read \in LedgerOutcomes : LookupSettles(url, read)
    \/ BatchReturned
    \/ \E fetched \in UnpaidFetched : FetchReturns(fetched)
    \/ UsageLogReturns

SpecPipeline == InitPipeline /\ [][NextPipeline]_vars

\* --------------------------------------------------------------------- C32
\* The step starts a direct fetch.
FetchStarts ==
    /\ handler'.pc = "fetch"
    /\ handler'.attempts # handler.attempts

\* C32: a handler starts its first direct fetch in the step in which
\* checkLicenseBatch returns, when no lookup of the batch is in flight and
\* the batch has an entry for the whole URL set; it starts the fetch of the
\* k-th URL of the results only in the step in which the fetch of the
\* (k-1)-th returned or the usage log of the (k-1)-th returned, so that one
\* fetch is under way at a time, in result order, and no usage log is; and
\* while a fetch or a usage log is under way no lookup is in flight.
C32_OneAtATime ==
    [][/\ FetchStarts =>
             LET k == Len(handler'.attempts) IN
             /\ handler.pc \in {"batch", "fetch", "log"}
             /\ handler.pc = "batch" <=> k = 1
             /\ handler'.attempts = SubSeq(handler'.urls, 1, k)
             /\ handler.attempts = SubSeq(handler'.urls, 1, k - 1)
             /\ \A j \in 1..(k - 1) : handler'.urls[j] \in DOMAIN handler'.fetchedByUrl
             /\ handler'.logs = handler.logs
             /\ batch'.st = "returned"
             /\ batch'.urls = handler'.urls
             /\ DOMAIN batch'.results = Range(handler'.urls)
       /\ handler'.pc \in {"fetch", "log"} => \A u \in URLS : inflight'[u] = 0]_vars

\* The fetch of the second URL is under way: both lookups of the batch
\* went to the ledger and one of them failed, the first fetch returned
\* content and its usage log has returned.
C32_Witness ==
    /\ handler.pc = "fetch"
    /\ Len(handler.attempts) = 2
    /\ handler.urls[1] # handler.urls[2]
    /\ requests = 2
    /\ \E u \in DOMAIN handler.licenses : handler.licenses[u].error
    /\ Len(handler.logs) = 1
    /\ handler.logs[1].url = handler.urls[1]
    /\ handler.urls[1] \in DOMAIN handler.fetchedByUrl

\* --------------------------------------------------------------------- C33
\* The stage and the distribution the 402 challenge asks for: the
\* x402-stage header, and the x402-distribution header or, when that one is
\* absent or empty, x-license-distribution.
ChallengeStage == fetcher.first.stage
ChallengeDistribution ==
    IF fetcher.first.distribution \in {"null", ""}
    THEN fetcher.first.licenseDistribution
    ELSE fetcher.first.distribution

\* What the caller of licensedFetchText gave, infer and private when it
\* gave none.
CallerStage ==
    IF fetcher.opts.defaults.stage = "undefined"
    THEN "infer" ELSE fetcher.opts.defaults.stage
CallerDistribution ==
    IF fetcher.opts.defaults.distribution = "undefined"
    THEN "private" ELSE fetcher.opts.defaults.distribution

\* C33: the acquisition is called with (and its request, when one is
\* posted, sends) the stage of the challenge when that is one of infer,
\* embed, tune, train and the caller's stage otherwise, the distribution of
\* the challenge when that is private or public and the caller's
\* distribution otherwise, and the URL licensedFetchText was called with.
C33_AcquireParams ==
    acquirer.st # "idle" =>
       /\ acquirer.params.stage =
             IF ChallengeStage \in {"infer", "embed", "tune", "train"}
             THEN ChallengeStage ELSE CallerStage
       /\ acquirer.params.distribution =
             IF ChallengeDistribution \in {"private", "public"}
             THEN ChallengeDistribution ELSE CallerDistribution
       /\ acquirer.params.url = fetcher.url
       /\ fetcher.first.status = 402

\* A request was posted for a challenge whose stage is not a stage and whose
\* distribution comes from x-license-distribution: the caller's stage and
\* the challenge's distribution were sent.
C33_Witness ==
    /\ acquirer.st # "idle"
    /\ acquirer.posts = 1
    /\ fetcher.first.stage = "bogus"
    /\ fetcher.first.distribution = "null"
    /\ fetcher.first.licenseDistribution = "public"
    /\ fetcher.opts.defaults.stage = "embed"
    /\ acquirer.params.stage = "embed"
    /\ acquirer.params.distribution = "public"
    /\ fetcher.first.url = "redirected"

\* ============================================================== shutdown
\* The service at shutdown: checks and usage logs are started while the
\* encoder is there, cleanup() frees it, and what was awaiting the ledger
\* settles before or after.
InitShutdown ==
    /\ config \in [enableTracking : {TRUE}, enableCache : {TRUE},
                   cacheTTL : {DefaultCacheTTL}, apiKey : {"key"}]
    /\ licenseCache = [u \in URLS |-> NoEntry]
    /\ sessionSummary = ZeroSummary(config.enableTracking)
    /\ now = 0
    /\ inflight = [u \in URLS |-> 0]
    /\ batch = IdleBatch
    /\ last = <<>>
    /\ requests = 0
    /\ inserted = [u \in URLS |-> 0 - 1]
    /\ usage = IdleUsage
    /\ fetcher = IdleFetcher
    /\ acquirer = IdleAcquirer
    /\ tokenEncoder = "encoder"
    /\ caller = NoCall
    /\ tally = ZeroTally
    /\ handler = NoHandler

NextShutdown ==
    /\ \/ \E url \in URLS, read \in LedgerOutcomes : LookupSettles(url, read)
       \/ \E urls \in SeqsUpTo(URLS, MaxBatchLen) :
             tokenEncoder = "encoder" /\ checkLicenseBatch(urls)
       \/ BatchReturn
       \/ \E tokens \in 0..MaxTokens : tokenEncoder = "encoder" /\ logUsage(tokens)
       \/ \E i \in 1..MaxUsageCalls, resolved \in BOOLEAN : UsageLogSettles(i, resolved)
       \/ cleanup
    /\ requests' + usage'.calls <= MaxOps

SpecShutdown == InitShutdown /\ [][NextShutdown]_vars

\* --------------------------------------------------------------------- C34
\* C34: a cleanup leaves the cache empty and the session counters, the
\* checks awaiting the ledger and the usage logs awaiting it as they were;
\* a check that ends with a record after cleanup ran still writes its cache
\* entry and adds to total_urls, and a usage log that ends after it still
\* adds its tokens to total_tokens or one to errors.
C34_NothingCancelled ==
    [][/\ (cleanup \/ tokenEncoder' # tokenEncoder) =>
             /\ \A u \in URLS : ~licenseCache'[u].present
             /\ sessionSummary' = sessionSummary
             /\ inflight' = inflight
             /\ usage'.pending = usage.pending
       /\ (tokenEncoder = "freed" /\ inflight' # inflight /\ Resumes({"record"})) =>
             /\ licenseCache'[last'[1].url].present
             /\ licenseCache'[last'[1].url].license = last'[1].result
             /\ licenseCache'[last'[1].url].expires = now + (1000 * config.cacheTTL)
             /\ sessionSummary'.total_urls = sessionSummary.total_urls + 1
       /\ (tokenEncoder = "freed" /\ UsageResumes) =>
             \/ sessionSummary'.total_tokens =
                   sessionSummary.total_tokens + usage'.report.tokens
                /\ usage'.report.tokens > 0
             \/ sessionSummary'.errors = sessionSummary.errors + 1]_vars

\* After cleanup a check that was awaiting the ledger has ended with a
\* record and a usage log with its tokens counted: the cache has an entry
\* again.
C34_Witness ==
    /\ tokenEncoder = "freed"
    /\ ResumedWith({"record"})
    /\ licenseCache[last[1].url].present
    /\ sessionSummary.total_urls = 1
    /\ requests = 1
    /\ usage.calls = 1
    /\ usage.pending = <<>>
    /\ sessionSummary.total_tokens > 0

\* --------------------------------------------------------------------- C35
\* The call of estimateTokens met no encoder that could encode: the
\* construction of the encoder had failed, or cleanup() had freed it, or
\* encode threw.
EncoderFailed ==
    caller.encoder # "encoder" \/ ~caller.encoded.ok

\* C35: estimateTokens returns 0 for the empty content and a natural number
\* for every content; without a usable encoder, or when encode throws, what
\* it returns for a content that is not empty is the least n with
\* 4 * n >= length, and with a usable encoder it is the number of tokens
\* encode returned, so that the content and the state of the encoder fix
\* the result.
C35_Estimate ==
    caller.op = "estimateTokens" =>
       /\ caller.value \in Nat
       /\ caller.len = 0 => caller.value = 0
       /\ (caller.len > 0 /\ EncoderFailed) =>
             /\ 4 * caller.value >= caller.len
             /\ 4 * (caller.value - 1) < caller.len
       /\ (caller.len > 0 /\ ~EncoderFailed) => caller.value = caller.encoded.tokens

\* The estimate of a content of five characters on which encode threw
C35_Witness ==
    /\ caller.op = "estimateTokens"
    /\ caller.len = 5
    /\ caller.encoder = "encoder"
    /\ ~caller.encoded.ok
    /\ caller.value = 2

\* --------------------------------------------------------------------- C36
\* C36: in every state the checks, the batches, the usage logs, the resets
\* and the cleanups of a service lead to, in whatever order their runs
\* interleave, total_urls is the sum of licensed_content,
\* unlicensed_content and denied_content.
C36_TotalIsSum ==
    sessionSummary.total_urls =
        sessionSummary.licensed_content + sessionSummary.unlicensed_content
            + sessionSummary.denied_content

\* Two checks of a batch have ended, one denied and one without a license
\* found, the second after the first.
C36_Witness ==
    /\ sessionSummary.total_urls = 2
    /\ sessionSummary.denied_content = 1
    /\ sessionSummary.unlicensed_content = 1
    /\ batch.st = "returned"
    /\ Len(batch.urls) = 2

\* --------------------------------------------------------------------- C37
\* C37: in every result licensedFetchText returns requested_url is the URL
\* it was called with; payment_attempted comes with payment_required; the
\* acquire field comes with payment_attempted and without an error;
\* payment_required comes with a first response of status 402; and status 0
\* comes with an error and without content_text.
C37_ResultShape ==
    Returned =>
       LET result == fetcher.result IN
       /\ result.requested_url = fetcher.url
       /\ result.payment_attempted => result.payment_required
       /\ result.acquire.present =>
             (result.payment_attempted /\ result.error = "none")
       /\ result.payment_required =>
             (fetcher.first.kind = "response" /\ fetcher.first.status = 402)
       /\ result.status = 0 =>
             (result.error # "none" /\ ~result.content.present)

\* A paid fetch has returned: the licensed URL was redirected and answered
\* 403, and the result carries the acquisition.
C37_Witness ==
    /\ Returned
    /\ fetcher.url = "u2"
    /\ fetcher.result.acquire.present
    /\ fetcher.result.payment_attempted
    /\ fetcher.result.status = 403
    /\ fetcher.result.final_url = "redirected"
    /\ fetcher.result.error = "none"

\* --------------------------------------------------------------------- C38
\* C38: when the acquisition returned and the second fetch then failed (the
\* network, or the deadline's abort), licensedFetchText returns status 402
\* and the content type of the first response, the body of the first
\* response cut to the budget, the final URL of the first response, both
\* payment flags true, the failure's message as error and no acquire field,
\* and the acquisition has posted its one request.
C38_SecondFetchFails ==
    (Returned /\ acquirer.st = "returned" /\ Len(fetcher.targets) = 2
     /\ fetcher.second.kind = "none") =>
       LET result == fetcher.result IN
       /\ result.requested_url = fetcher.url
       /\ result.status = 402
       /\ result.status = fetcher.first.status
       /\ result.content_type = fetcher.first.contentType
       /\ fetcher.read = "first"
       /\ result.content.present
       /\ result.content.text =
             (IF Budget >= 0 /\ Budget < Len(BodyRead)
              THEN SubSeq(BodyRead, 1, Budget)
              ELSE IF Budget < 0 /\ Len(BodyRead) + Budget > 0
              THEN SubSeq(BodyRead, 1, Len(BodyRead) + Budget)
              ELSE IF Budget < 0 THEN <<>> ELSE BodyRead)
       /\ result.final_url =
             (IF fetcher.first.url = "" THEN fetcher.url ELSE fetcher.first.url)
       /\ result.payment_attempted
       /\ result.payment_required
       /\ result.error \in {"fetch failed", "This operation was aborted"}
       /\ ~result.acquire.present
       /\ acquirer.posts = 1
       /\ fetcher.acquisitions = 1

\* The second fetch of a paid call was aborted by the deadline: the result
\* has the first response's 402, its redirected URL and the first character
\* of its body.
C38_Witness ==
    /\ Returned
    /\ acquirer.st = "returned"
    /\ fetcher.targets = <<"u1", "licensed">>
    /\ fetcher.second.kind = "none"
    /\ fetcher.result.error = "This operation was aborted"
    /\ fetcher.result.status = 402
    /\ fetcher.result.final_url = "redirected"
    /\ fetcher.opts.maxChars.given /\ fetcher.opts.maxChars.value = 1
    /\ fetcher.result.content.text = <<"a">>
    /\ ~fetcher.result.acquire.present

\* --------------------------------------------------------------------- C39
\* How many of the entries of a sequence are of this URL
Occurrences(seq, url) == Cardinality({j \in DOMAIN seq : seq[j] = url})
LogsOf(url) == Cardinality({j \in DOMAIN handler.logs : handler.logs[j].url = url})

\* The step calls logUsage.
LogStarts ==
    /\ handler.pc \notin {"idle", "returned", "raised"}
    /\ Len(handler'.logs) > Len(handler.logs)

\* The fetch of this step's URL ended with a 2xx status and content that
\* is not empty (for which the token estimate is not 0).
FetchedLoggable ==
    LET url == handler.urls[handler.i]
        fetched == handler'.fetchedByUrl[url]
    IN /\ url \in DOMAIN handler'.fetchedByUrl
       /\ fetched.status >= 200 /\ fetched.status <= 299
       /\ fetched.content # ""

====
